---- MODULE Spec2Model ----
(***************************************************************************)
(* Model of the ink2md polling pipeline: the ProcessingState ledger        *)
(* (state.py), the processor variants (processor.py) and the naming and    *)
(* write behaviour of the output handlers (output.py, output_mindmap.py).  *)
(***************************************************************************)
EXTENDS Integers, Sequences, FiniteSets, TLC

\* ------------------------------------------------------------------ bounds
MaxFaults   == 2    \* transient connector / backend / output errors injected
MaxCrashes  == 1    \* process kills injected
MaxRestarts == 1    \* times the command is started again after it ended
MaxClock    == 2    \* wall-clock ticks (half seconds) the model lets pass
CountCap    == 2    \* history counters saturate here
MaxThreads  == 2    \* threads sharing one ProcessingState instance
MaxLen      == 3    \* longest document name given to the routing function
MaxStamp    == 3    \* latest modified_at (in ticks) given to the naming function
MaxWrites   == 3    \* write calls made on one output handler
MaxSyncs    == 2    \* write calls made on the Obsidian handler, git failing or not
MaxRetries  == 3    \* largest max_retries a Drive connector is constructed with
MaxRequests == 3    \* convert_pdf calls made on one Gemini client
MaxPages    == 3    \* pages the Drive folder listing is served in
MaxDay      == 4    \* last day (counted from day 0) the log directory sees
MaxDepth    == 2    \* levels of parents above the varied node of a mindmap
MaxChildren == 2    \* children of the varied node of a mindmap

\* ------------------------------------------------------- program constants
TicksPerSecond == 2          \* strftime("%Y%m%d%H%M%S") drops sub-second time
NoTime         == 0 - 1      \* modified_at is None
StatePath      == "state.json"
MmTag   == <<"m", "m">>
Hashtags == {MmTag}
KeepLocalCopy == TRUE

\* ---------------------------------------------------------------- documents
\* CloudDocument(identifier, name, modified_at); names are character lists.
D1 == [identifier |-> 1, name |-> <<"a">>,           modified_at |-> 2]
D2 == [identifier |-> 2, name |-> <<"a", "/">>,      modified_at |-> 2]
D3 == [identifier |-> 3, name |-> <<"#", "M", "m">>, modified_at |-> NoTime]
Docs == {D1, D2, D3}
DocIds == {d.identifier : d \in Docs}
DocOf(i) == CHOOSE d \in Docs : d.identifier = i

\* list_pdfs: the documents of the folder, sorted (LocalFolderConnector sorts
\* by path; identifiers stand for the paths).
RECURSIVE SortedListing(_)
SortedListing(folder) ==
  IF folder = {} THEN <<>>
  ELSE LET first == CHOOSE d \in folder :
                       \A o \in folder : d.identifier <= o.identifier
       IN <<first>> \o SortedListing(folder \ {first})

\* ------------------------------------------------------------ text helpers
SafeChars == {"a", "m", "M", ".", "_", "-"}

RECURSIVE ReSubUnsafe(_, _)
\* re.sub(r"[^A-Za-z0-9._-]+", "-", name)
ReSubUnsafe(s, inRun) ==
  IF s = <<>> THEN <<>>
  ELSE IF Head(s) \in SafeChars THEN <<Head(s)>> \o ReSubUnsafe(Tail(s), FALSE)
  ELSE IF inRun THEN ReSubUnsafe(Tail(s), TRUE)
  ELSE <<"-">> \o ReSubUnsafe(Tail(s), TRUE)

RECURSIVE LStrip(_, _)
LStrip(s, c) == IF s # <<>> /\ Head(s) = c THEN LStrip(Tail(s), c) ELSE s

RECURSIVE RStrip(_, _)
RStrip(s, c) ==
  IF s # <<>> /\ s[Len(s)] = c THEN RStrip(SubSeq(s, 1, Len(s) - 1), c) ELSE s

Strip(s, c) == RStrip(LStrip(s, c), c)

LowerChar(c) == IF c = "M" THEN "m" ELSE c
Lower(s) == [i \in DOMAIN s |-> LowerChar(s[i])]

Contains(hay, needle) ==
  \E i \in 0..(Len(hay) - Len(needle)) :
     SubSeq(hay, i + 1, i + Len(needle)) = needle

\* MarkdownOutputHandler._sanitize_name / GoogleDriveMindmapOutputHandler._sanitize_name
SanitizeName(name, fallback) ==
  LET safe == Strip(ReSubUnsafe(name, FALSE), "-")
  IN IF safe = <<>> THEN fallback ELSE safe

\* _determine_timestamp_suffix: modified_at if present, else wall clock;
\* formatted with one-second resolution.
DetermineTimestampSuffixNow(document, now) == now \div TicksPerSecond
DetermineTimestampSuffix(document, now) ==
  LET timestamp == IF document.modified_at # NoTime THEN document.modified_at ELSE now
  IN timestamp \div TicksPerSecond

\* _build_basename: "<safe_name>-<suffix>"; counters holds the "-<n>" parts a
\* handler appends later, none here.
BuildBasename(document, now, fallback) ==
  [name |-> SanitizeName(document.name, fallback),
   suffix |-> DetermineTimestampSuffix(document, now),
   counters |-> <<>>]

\* _has_mindmap_hashtag
HasMindmapHashtagExact(name, hashtags) ==
  \E tag \in hashtags : Contains(name, tag)
HasMindmapHashtag(name, hashtags) ==
  LET lowered == Lower(name)
  IN \E tag \in hashtags :
       LET normalized == LStrip(Lower(tag), "#")
       IN Contains(lowered, <<"#">> \o normalized) \/ Contains(lowered, normalized)

\* ------------------------------------------------------------- ledger file
\* A file is absent or holds text; text written by json.dump is complete only
\* once the dump has finished.  processed: identifier -> [name, timestamp].
\* keyed: the JSON object has the "processed" key.
EmptyLedger == <<>>
AbsentFile ==
  [exists |-> FALSE, complete |-> FALSE, keyed |-> FALSE, processed |-> EmptyLedger]
TextFile(state, whole) ==
  [exists |-> TRUE, complete |-> whole, keyed |-> TRUE, processed |-> state]

\* Content found on disk that this program did not write: a file json.load
\* rejects, and a JSON object without the "processed" key (e.g. {}).
UnparseableFile ==
  [exists |-> TRUE, complete |-> FALSE, keyed |-> FALSE, processed |-> EmptyLedger]
UnkeyedFile ==
  [exists |-> TRUE, complete |-> TRUE, keyed |-> FALSE, processed |-> EmptyLedger]

\* state.get("processed", {}) in has_processed, state.setdefault("processed", {})
\* in mark_processed: a missing key reads as the empty mapping.
ProcessedOf(file) == IF file.keyed THEN file.processed ELSE EmptyLedger

\* path.with_suffix(".tmp")
TmpPathSame(path) == path
TmpPath(path) == "state.tmp"

LedgerPaths == {StatePath, TmpPath(StatePath)}

Keys(state) == DOMAIN state

\* has_processed: document_id in state.get("processed", {}).  (Looked up in
\* the top-level object instead, no identifier is ever found: its only key is
\* "processed".)
HasProcessedTopLevel(state, document_id) == FALSE
HasProcessed(state, document_id) == document_id \in Keys(state)

\* The identifier as text (identifiers are strings in the program).
IdChars == <<"1", "2", "3">>
IdText(document_id) == <<"i", "d", IdChars[document_id]>>

\* mark_processed: processed[document_id] = {name or document_id, now}
LedgerRecord(document_id, name, now) ==
  [name |-> IF name = <<>> THEN IdText(document_id) ELSE name, timestamp |-> now]

MarkedFresh(state, document_id, name, now) ==
  [k \in {document_id} |-> LedgerRecord(document_id, name, now)]
Marked(state, document_id, name, now) ==
  [k \in Keys(state) \cup {document_id} |->
     IF k = document_id THEN LedgerRecord(document_id, name, now) ELSE state[k]]


\* run_once: processed += 1, after mark_processed returned
Uncounted(n) == n
Counted(n) == n + 1

\* _write_state's final step: tmp_path.replace(self.path)
Replaced(files, tmp, path) ==
  [p \in DOMAIN files |->
     IF p = path THEN files[tmp] ELSE IF p = tmp THEN AbsentFile ELSE files[p]]

\* __post_init__: if not self.path.exists(): self._write_state({"processed": {}})
NeedsInitialWriteAlways(file) == TRUE
NeedsInitialWrite(file) == ~file.exists

\* ------------------------------------------------------------ destinations
\* A destination file: directory, stem, extension, and the document whose
\* content it holds.
PathOf(dir, stem, ext) == [dir |-> dir, stem |-> stem, ext |-> ext]

Exists(files, path) == \E f \in files : f.path = path

\* write_text / write_bytes: create or overwrite
WriteFile(files, path, doc) ==
  {f \in files : f.path # path} \cup {[path |-> path, doc |-> doc]}

\* candidate_stem = stem if counter == 0 else f"{stem}-{counter}"
CandidateStem(stem, counter) ==
  IF counter = 0 THEN stem ELSE [stem EXCEPT !.counters = @ \o <<counter>>]

\* ObsidianVaultOutputHandler._unique_path
UniquePathUnprobed(files, dir, stem, ext) == PathOf(dir, CandidateStem(stem, 0), ext)
UniquePath(files, dir, stem, ext) ==
  LET free == {c \in 0..Cardinality(files) :
                 ~Exists(files, PathOf(dir, CandidateStem(stem, c), ext))}
      counter == CHOOSE c \in free : \A o \in free : c <= o
  IN PathOf(dir, CandidateStem(stem, counter), ext)

\* MarkdownOutputHandler.write (no asset directory configured)
FilesystemPaths(files, document, now) ==
  <<PathOf("notes", BuildBasename(document, now, <<"document">>), "md")>>

\* ObsidianVaultOutputHandler.write, media_mode "pdf": the attachment is named
\* after the note's final stem and written first, then the note.
ObsidianPaths(files, document, now) ==
  LET markdown_path ==
        UniquePath(files, "notes", BuildBasename(document, now, <<"document">>), "md")
      pdf_path == UniquePath(files, "media", markdown_path.stem, "pdf")
  IN <<pdf_path, markdown_path>>

\* GoogleDriveMindmapOutputHandler.write: "<basename>.mm"
MindmapPaths(files, document, now) ==
  <<PathOf("notes", BuildBasename(document, now, <<"mindmap">>), "mm")>>

RECURSIVE WriteAll(_, _, _)
WriteAll(files, paths, doc) ==
  IF paths = <<>> THEN files
  ELSE WriteAll(WriteFile(files, Head(paths), doc), Tail(paths), doc)


\* The routing labels, as character lists.
MindmapLabel == <<"m", "i", "n", "d", "m", "a", "p">>
MarkdownLabel == <<"m", "a", "r", "k", "d", "o", "w", "n">>

\* str.strip(): the blank is the only whitespace character of the texts here.
StripWs(s) == Strip(s, " ")

\* ClassifierAnswers: what classify_document may return ("mindmap",
\* " Mindmap ", "a mindmap", "markdown"); the processor compares
\* str(decision).lower().strip() with "mindmap".
ClassifierAnswers ==
  {MindmapLabel,
   <<" ", "M", "i", "n", "d", "m", "a", "p", " ">>,
   <<"a", " ", "m", "i", "n", "d", "m", "a", "p">>,
   MarkdownLabel}
LowerStripAnswerRaw(decision) == decision
LowerStripAnswer(decision) == StripWs(Lower(decision))

Bump(n) == IF n < CountCap THEN n + 1 ELSE n

\* ------------------------------------------------------------------- state
VARIABLES
  caller,       \* "processor" (cli main) | "client" (code using the ledger API)
  variant,      \* "pdf" | "mindmap" | "agentic": which processor was built
  mdHandler,    \* "filesystem" | "obsidian": the markdown output handler
  folder,       \* documents present in the monitored folder
  bad,          \* identifiers of documents that fail on every attempt
  badStage,     \* "fetch" | "convert" | "write": where they fail
  fs,           \* ledger directory: path -> file
  dest,         \* local destination files (set of [path, doc])
  remote,       \* files created in the Drive folder, in upload order
  clock,        \* wall clock, in ticks
  pc,           \* position of the process
  listing,      \* documents returned by list_pdfs for this pass
  idx,          \* loop position in listing (1-based)
  processed,    \* run_once's counter
  pipeline,     \* "markdown" | "mindmap": route of the current document
  wstate,       \* argument of the running _write_state
  wpc,          \* position inside _write_state
  faults, crashes, restarts,   \* injected so far
  ev,           \* last call made: [op, doc, ret]
  wrote,        \* identifiers whose write returned in this pass
  attempted,    \* identifiers download_pdf was invoked for in this pass
  failed,       \* identifiers whose handling raised in this pass
  pendingRetry, \* identifiers that failed and have not been listed since
  mustRetry,    \* listed in this pass and failed in the pass before
  unclassified, \* identifiers whose classify_document raised in this pass
  crashedAfterWrite, \* identifiers killed between write and ledger commit
  pathsOf,      \* identifier -> primary artifact paths written for it
  writes,       \* identifier -> completed writes (saturating)
  marks,        \* identifier -> committed mark_processed calls (saturating)
  lock,         \* ProcessingState._lock: the thread holding it, 0 when free
  thr,          \* thread -> its position in a ledger call and what it saw
  handler,      \* the output handler under direct use: [kind, push, media_mode]
  repo,         \* its git repository: [index, head, log, pushed]
  call,         \* the last write call made on it
  written,      \* identifier -> what the last write for it stored, and where
  ssh,          \* the SSH set-up the Obsidian handler works in
  arg,          \* inputs of the function under evaluation
  res           \* its results

\* The processor, the threads sharing a ledger, the directly used handler and
\* the evaluation of the naming and routing functions are separate
\* specifications over this one state; the steps of one leave the variables
\* of the others as they are.
threadVars  == <<lock, thr>>
handlerVars == <<handler, repo, call, written, ssh>>
fnVars      == <<arg, res>>
config == <<caller, variant, mdHandler, bad, badStage>>
cfg   == <<config, threadVars, handlerVars, fnVars>>
env   == <<faults, crashes, restarts>>
loop  == <<listing, idx, processed, pipeline>>
retry == <<failed, pendingRetry, mustRetry, unclassified>>
hist  == <<wrote, attempted, crashedAfterWrite, pathsOf, writes, marks>>
vars  == <<cfg, folder, fs, dest, remote, clock, pc, loop, wstate, wpc, env, ev, retry, hist>>
\* What belongs to the processor alone (fs, dest, remote and clock are the
\* file system, the Drive folder and the wall clock, which all use).
procVars == <<config, folder, pc, loop, wstate, wpc, env, ev, retry, hist>>

NoEvent == [op |-> "none", doc |-> 0, ret |-> FALSE]
Event(op, doc, ret) == [op |-> op, doc |-> doc, ret |-> ret]

Document == listing[idx]
Ledger == ProcessedOf(fs[StatePath])
LedgerKeys == IF fs[StatePath].exists THEN Keys(ProcessedOf(fs[StatePath])) ELSE {}
Ids(l) == {l[i].identifier : i \in DOMAIN l}

\* The processor before main runs; files: what the ledger directory may hold.
ProcessorInit(callers, bads, f, c, r, files) ==
  /\ caller \in callers
  /\ variant \in {"pdf", "mindmap", "agentic"}
  /\ mdHandler \in {"filesystem", "obsidian"}
  /\ variant = "mindmap" => mdHandler = "filesystem"
  /\ caller = "client" => variant = "pdf" /\ mdHandler = "filesystem"
  /\ folder = {}
  /\ bad \in bads
  /\ badStage \in {"fetch", "convert", "write"}
  /\ bad = {} => badStage = "fetch"
  /\ fs \in files
  /\ dest = {}
  /\ remote = <<>>
  /\ clock = 1
  /\ pc = "boot"
  /\ listing = <<>>
  /\ idx = 1
  /\ processed = 0
  /\ pipeline = "markdown"
  /\ wstate = EmptyLedger
  /\ wpc = "none"
  /\ faults = f /\ crashes = c /\ restarts = r
  /\ ev = NoEvent
  /\ wrote = {} /\ attempted = {} /\ failed = {}
  /\ pendingRetry = {} /\ mustRetry = {}
  /\ unclassified = {}
  /\ crashedAfterWrite = {}
  /\ pathsOf = [i \in DocIds |-> {}]
  /\ writes = [i \in DocIds |-> 0]
  /\ marks = [i \in DocIds |-> 0]

NoFiles == [p \in LedgerPaths |-> AbsentFile]

\* No thread has called the ledger.
IdleThread == [pc |-> "idle", state |-> EmptyLedger, calls |-> 0,
               returned |-> FALSE, partial |-> FALSE,
               seen |-> [id |-> 0, ret |-> FALSE, marked |-> FALSE]]
Threads == 1..MaxThreads
ThreadsIdle ==
  /\ lock = 0
  /\ thr = [t \in Threads |-> IdleThread]

\* No handler is used directly.
NoHandler == [kind |-> "none", push |-> FALSE, media_mode |-> "pdf"]
NoDocument == [identifier |-> 0, name |-> <<>>, modified_at |-> NoTime]
EmptyRepo == [index |-> {}, head |-> {}, log |-> <<>>, pushed |-> 0]
NoCall == [n |-> 0, document |-> NoDocument, text |-> 0, pages |-> 0,
           paths |-> <<>>, ops |-> <<>>, now |-> 0,
           prev |-> [document |-> NoDocument, text |-> 0, pages |-> 0, now |-> 0]]
NoSsh == [built |-> "none"]
HandlerIdle ==
  /\ handler = NoHandler
  /\ repo = EmptyRepo
  /\ call = NoCall
  /\ written = <<>>
  /\ ssh = NoSsh

\* No function is under evaluation.
NoArg == [fn |-> "none"]
NoRes == [done |-> 0]
FnIdle ==
  /\ arg = NoArg
  /\ res = NoRes

InitWith(callers, bads, f, c, r) ==
  /\ ProcessorInit(callers, bads, f, c, r, {NoFiles})
  /\ ThreadsIdle
  /\ HandlerIdle
  /\ FnIdle

Init == InitWith({"processor", "client"}, {{}}, 0, 0, 0)

\* ------------------------------------------------------------ ProcessingState
\* Where control goes once ProcessingState(path) is constructed: build_processor
\* hands it to the processor and main starts the first pass; a client goes on
\* to call the ledger.
Constructed == IF caller = "client" THEN "client" ELSE "run"

\* ProcessingState.__post_init__
PostInit ==
  /\ pc = "boot"
  /\ IF NeedsInitialWrite(fs[StatePath])
     THEN /\ pc' = "init_write"
          /\ wstate' = EmptyLedger
          /\ wpc' = "start"
     ELSE /\ pc' = Constructed
          /\ UNCHANGED <<wstate, wpc>>
  /\ ev' = Event("construct", 0, FALSE)
  /\ UNCHANGED <<cfg, folder, fs, dest, remote, clock, loop, env, retry, hist>>

\* _write_state: tmp_path.open("w") creates or truncates the temp file.
WriteOpen ==
  /\ pc \in {"init_write", "mark_write"}
  /\ wpc = "start"
  /\ fs' = [fs EXCEPT ![TmpPath(StatePath)] = TextFile(EmptyLedger, FALSE)]
  /\ wpc' = "opened"
  /\ UNCHANGED <<cfg, folder, dest, remote, clock, pc, loop, wstate, env, ev, retry, hist>>

\* _write_state: json.dump and the close of the with block.
WriteDump ==
  /\ pc \in {"init_write", "mark_write"}
  /\ wpc = "opened"
  /\ fs' = [fs EXCEPT ![TmpPath(StatePath)] = TextFile(wstate, TRUE)]
  /\ wpc' = "dumped"
  /\ UNCHANGED <<cfg, folder, dest, remote, clock, pc, loop, wstate, env, ev, retry, hist>>

\* _write_state: tmp_path.replace(self.path); then the caller goes on:
\* __post_init__ returns, or mark_processed returns and run_once counts the
\* document and moves to the next one.
WriteReplace ==
  /\ pc \in {"init_write", "mark_write"}
  /\ wpc = "dumped"
  /\ fs' = Replaced(fs, TmpPath(StatePath), StatePath)
  /\ wpc' = "none"
  /\ IF pc = "init_write"
     THEN /\ pc' = Constructed
          /\ UNCHANGED <<loop, ev, marks>>
     ELSE /\ pc' = IF caller = "client" THEN "client" ELSE "gate"
          /\ processed' = IF caller = "client" THEN processed ELSE Counted(processed)
          /\ idx' = IF caller = "client" THEN idx ELSE idx + 1
          /\ ev' = Event("mark_processed", Document.identifier, FALSE)
          /\ marks' = [marks EXCEPT ![Document.identifier] = Bump(@)]
          /\ UNCHANGED <<listing, pipeline>>
  /\ UNCHANGED <<cfg, folder, dest, remote, clock, wstate, env, retry,
                 wrote, attempted, crashedAfterWrite, pathsOf, writes>>


\* _read_state: open + json.load succeed only on a whole file.
ReadOkPartial(file) == file.exists
ReadOk(file) == file.exists /\ file.complete

\* ------------------------------------------------------------------ faults
MustFail(stage, id) == id \in bad /\ badStage = stage
CanFault == faults < MaxFaults

\* An exception leaves run_once (no handler in run_once, run_forever or
\* main): the process ends with a traceback.
Raised(id, forced, target) ==
  /\ pc' = target
  /\ failed' = failed \cup {id}
  /\ pendingRetry' = pendingRetry \cup {id}
  /\ faults' = IF forced THEN faults ELSE faults + 1
  /\ UNCHANGED <<crashes, restarts, mustRetry, unclassified>>

\* ------------------------------------------------------------------ run_once
\* processed = 0; for document in self.connector.list_pdfs()
ListPdfs ==
  /\ pc = "run"
  /\ \/ LET l == SortedListing(folder)
        IN
          /\ listing' = l
          /\ idx' = 1
          /\ processed' = 0
          /\ pc' = "gate"
          /\ mustRetry' = pendingRetry \cap Ids(l)
          /\ pendingRetry' = pendingRetry \ Ids(l)
          /\ failed' = {}
          /\ UNCHANGED env
     \/ /\ CanFault
        /\ listing' = <<>>
        /\ idx' = 1
        /\ processed' = 0
        /\ pc' = "raised"
        /\ mustRetry' = {}
        /\ failed' = {}
        /\ faults' = faults + 1
        /\ UNCHANGED <<pendingRetry, crashes, restarts>>
  /\ wrote' = {}
  /\ attempted' = {}
  /\ unclassified' = {}
  /\ ev' = Event("list_pdfs", 0, FALSE)
  /\ UNCHANGED <<cfg, folder, fs, dest, remote, clock, pipeline, wstate, wpc,
                 crashedAfterWrite, pathsOf, writes, marks>>

\* Loop head and dedup gate: if self.state.has_processed(document.identifier): continue
Gate ==
  /\ pc = "gate"
  /\ IF idx > Len(listing)
     THEN /\ pc' = "returned"
          /\ ev' = Event("return", 0, FALSE)
          /\ UNCHANGED <<idx, env, retry>>
     ELSE IF ~ReadOk(fs[StatePath])
     THEN /\ ev' = Event("has_processed", Document.identifier, FALSE)
          /\ pc' = "raised"
          /\ UNCHANGED <<idx, env, retry>>
     ELSE LET ret == HasProcessed(Ledger, Document.identifier)
          IN /\ ev' = Event("has_processed", Document.identifier, ret)
             /\ pc' = IF ret THEN "gate" ELSE "download"
             /\ idx' = IF ret THEN idx + 1 ELSE idx
             /\ UNCHANGED <<env, retry>>
  /\ UNCHANGED <<cfg, folder, fs, dest, remote, clock, listing, processed, pipeline,
                 wstate, wpc, hist>>

\* pdf_bytes = self.connector.download_pdf(document)
DownloadPdf ==
  /\ pc = "download"
  /\ attempted' = attempted \cup {Document.identifier}
  /\ \/ /\ ~MustFail("fetch", Document.identifier)
        /\ pc' = IF variant = "agentic" THEN "route" ELSE "convert"
        /\ pipeline' = IF variant = "mindmap" THEN "mindmap" ELSE "markdown"
        /\ ev' = Event("download_pdf", Document.identifier, TRUE)
        /\ UNCHANGED <<env, retry>>
     \/ /\ MustFail("fetch", Document.identifier) \/ CanFault
        /\ Raised(Document.identifier, MustFail("fetch", Document.identifier), "raised")
        /\ ev' = Event("download_pdf", Document.identifier, FALSE)
        /\ UNCHANGED pipeline
  /\ UNCHANGED <<cfg, folder, fs, dest, remote, clock, listing, idx, processed,
                 wstate, wpc, wrote, crashedAfterWrite, pathsOf, writes, marks>>

\* _select_pipeline's "except Exception": the error of classify_document is
\* logged and "markdown" returned, so run_once goes on to the conversion.
OnClassifyErrorPropagated == [pc |-> "raised", pipeline |-> "markdown"]
OnClassifyError == [pc |-> "convert", pipeline |-> "markdown"]

\* AgenticProcessor._select_pipeline
SelectPipeline ==
  /\ pc = "route"
  /\ IF HasMindmapHashtag(Document.name, Hashtags)
     THEN /\ pipeline' = "mindmap"
          /\ pc' = "convert"
          /\ ev' = Event("hashtag", Document.identifier, TRUE)
          /\ UNCHANGED <<env, unclassified>>
     ELSE \/ \E decision \in ClassifierAnswers :
               /\ pipeline' = IF LowerStripAnswer(decision) = MindmapLabel
                              THEN "mindmap" ELSE "markdown"
               /\ pc' = "convert"
               /\ ev' = Event("classify_document", Document.identifier, TRUE)
               /\ UNCHANGED <<env, unclassified>>
          \/ /\ CanFault
             /\ pipeline' = OnClassifyError.pipeline
             /\ pc' = OnClassifyError.pc
             /\ ev' = Event("classify_document", Document.identifier, FALSE)
             /\ faults' = faults + 1
             /\ unclassified' = unclassified \cup {Document.identifier}
             /\ UNCHANGED <<crashes, restarts>>
  /\ UNCHANGED <<cfg, folder, fs, dest, remote, clock, listing, idx, processed,
                 wstate, wpc, failed, pendingRetry, mustRetry, hist>>

\* llm_client.convert_pdf / llm_client.extract_mindmap
Convert ==
  /\ pc = "convert"
  /\ \/ /\ ~MustFail("convert", Document.identifier)
        /\ pc' = "write"
        /\ ev' = Event("convert", Document.identifier, TRUE)
        /\ UNCHANGED <<env, retry>>
     \/ /\ MustFail("convert", Document.identifier) \/ CanFault
        /\ Raised(Document.identifier, MustFail("convert", Document.identifier), "raised")
        /\ ev' = Event("convert", Document.identifier, FALSE)
  /\ UNCHANGED <<cfg, folder, fs, dest, remote, clock, loop, wstate, wpc, hist>>


\* run_once has no handler around output_handler.write: its exception leaves
\* run_once before mark_processed is reached.
OnWriteErrorSwallowed == "mark"
OnWriteError == "raised"

\* The paths output_handler.write targets for the current document: those of
\* the mindmap handler on the mindmap route, of the markdown handler otherwise.
TargetPathsMarkdown ==
  IF mdHandler = "obsidian" THEN ObsidianPaths(dest, Document, clock)
  ELSE FilesystemPaths(dest, Document, clock)
TargetPaths ==
  IF pipeline = "mindmap" THEN MindmapPaths(dest, Document, clock)
  ELSE IF mdHandler = "obsidian" THEN ObsidianPaths(dest, Document, clock)
  ELSE FilesystemPaths(dest, Document, clock)

\* The note (.md) or mindmap (.mm) among them.
PrimaryPath(paths) == paths[Len(paths)]

\* output_handler.write(document, ...).  A markdown handler can fail before
\* any file is written or after the files are written (a later step of the
\* handler fails).  The Drive handler uploads, and writes its local copy in a
\* finally block whether or not the upload succeeded.
WriteOutput ==
  /\ pc = "write"
  /\ LET id == Document.identifier
         paths == TargetPaths
         stored == WriteAll(dest, paths, id)
         noted == [pathsOf EXCEPT ![id] = @ \cup {PrimaryPath(paths)}]
     IN \/ /\ ~MustFail("write", id)
           /\ dest' = IF pipeline = "mindmap" /\ ~KeepLocalCopy THEN dest ELSE stored
           /\ remote' = IF pipeline = "mindmap"
                        THEN Append(remote, PrimaryPath(paths).stem) ELSE remote
           /\ pathsOf' = noted
           /\ writes' = [writes EXCEPT ![id] = Bump(@)]
           /\ wrote' = wrote \cup {id}
           /\ pc' = "mark"
           /\ ev' = Event("write", id, TRUE)
           /\ UNCHANGED <<env, retry>>
        \/ /\ MustFail("write", id) \/ CanFault
           /\ \/ /\ pipeline = "markdown"
                 /\ UNCHANGED <<dest, pathsOf>>
              \/ /\ pipeline = "markdown" \/ KeepLocalCopy
                 /\ dest' = stored
                 /\ pathsOf' = noted
           /\ Raised(id, MustFail("write", id), OnWriteError)
           /\ ev' = Event("write", id, FALSE)
           /\ UNCHANGED <<remote, writes, wrote>>
  /\ UNCHANGED <<cfg, folder, fs, clock, loop, wstate, wpc, attempted,
                 crashedAfterWrite, marks>>

\* mark_processed up to the call of _write_state: read the ledger, set the
\* record of this identifier.
MarkRead ==
  /\ pc = "mark"
  /\ IF ReadOk(fs[StatePath])
     THEN /\ wstate' = Marked(Ledger, Document.identifier, Document.name, clock)
          /\ wpc' = "start"
          /\ pc' = "mark_write"
     ELSE /\ pc' = "raised"
          /\ UNCHANGED <<wstate, wpc>>
  /\ UNCHANGED <<cfg, folder, fs, dest, remote, clock, loop, env, ev, retry, hist>>

\* run_forever: time.sleep(poll_interval), then the next run_once.
Sleep ==
  /\ pc = "returned"
  /\ pc' = "run"
  /\ UNCHANGED <<cfg, folder, fs, dest, remote, clock, loop, wstate, wpc, env, ev, retry, hist>>

\* --------------------------------------------------- direct use of the ledger
\* Documents a client passes to the ledger: the folder's documents and one
\* with an empty display name (mark_processed then stores the identifier).
D1Unnamed == [identifier |-> 1, name |-> <<>>, modified_at |-> 2]
ClientDocs == {D1, D1Unnamed, D2}

\* state.has_processed(document_id)
ClientHasProcessed ==
  /\ pc = "client"
  /\ \E d \in ClientDocs :
       IF ReadOk(fs[StatePath])
       THEN /\ ev' = Event("has_processed", d.identifier,
                           HasProcessed(Ledger, d.identifier))
            /\ pc' = "client"
       ELSE /\ ev' = Event("has_processed", d.identifier, FALSE)
            /\ pc' = "raised"
  /\ UNCHANGED <<cfg, folder, fs, dest, remote, clock, loop, wstate, wpc, env,
                 retry, hist>>

\* state.mark_processed(document_id, name=name): the call; MarkRead and the
\* _write_state steps carry it out.
ClientMarkProcessed ==
  /\ pc = "client"
  /\ \E d \in ClientDocs :
       /\ listing' = <<d>>
       /\ idx' = 1
  /\ pc' = "mark"
  /\ UNCHANGED <<cfg, folder, fs, dest, remote, clock, processed, pipeline,
                 wstate, wpc, env, ev, retry, hist>>

\* ------------------------------------------------------------- environment
Running == {"boot", "init_write", "run", "gate", "download", "route",
            "convert", "write", "mark", "mark_write", "returned", "client"}

\* The process is killed.
Crash ==
  /\ pc \in Running
  /\ crashes < MaxCrashes
  /\ crashes' = crashes + 1
  /\ crashedAfterWrite' = IF pc \in {"mark", "mark_write"} /\ caller = "processor"
                          THEN crashedAfterWrite \cup {Document.identifier}
                          ELSE crashedAfterWrite
  /\ pc' = "crashed"
  /\ wpc' = "none"
  /\ UNCHANGED <<cfg, folder, fs, dest, remote, clock, loop, wstate, faults, restarts,
                 ev, retry, wrote, attempted, pathsOf, writes, marks>>

\* The command is started again (by the user or a supervisor).
Restart ==
  /\ pc \in {"crashed", "raised"}
  /\ restarts < MaxRestarts
  /\ restarts' = restarts + 1
  /\ pc' = "boot"
  /\ listing' = <<>>
  /\ idx' = 1
  /\ processed' = 0
  /\ pipeline' = "markdown"
  /\ wstate' = EmptyLedger
  /\ wpc' = "none"
  /\ ev' = NoEvent
  /\ UNCHANGED <<cfg, folder, fs, dest, remote, clock, faults, crashes, retry, hist>>

\* A new PDF appears in the monitored folder.
Arrive ==
  /\ pc = "run"
  /\ \E d \in Docs \ folder : folder' = folder \cup {d}
  /\ UNCHANGED <<cfg, fs, dest, remote, clock, pc, loop, wstate, wpc, env, ev, retry, hist>>

\* Wall-clock time passes (observed only when a name or a ledger record is
\* formed, so it is let pass between passes).
Tick ==
  /\ pc \in {"run", "client"}
  /\ clock < MaxClock
  /\ clock' = clock + 1
  /\ UNCHANGED <<cfg, folder, fs, dest, remote, pc, loop, wstate, wpc, env, ev, retry, hist>>

Next ==
  \/ PostInit
  \/ WriteOpen
  \/ WriteDump
  \/ WriteReplace
  \/ ListPdfs
  \/ Gate
  \/ DownloadPdf
  \/ SelectPipeline
  \/ Convert
  \/ WriteOutput
  \/ MarkRead
  \/ ClientHasProcessed
  \/ ClientMarkProcessed
  \/ Sleep
  \/ Arrive
  \/ Crash
  \/ Restart
  \/ Tick

Spec == Init /\ [][Next]_vars

TypeOK ==
  /\ pc \in Running \cup {"crashed", "raised"}
  /\ wpc \in {"none", "start", "opened", "dumped"}
  /\ idx \in 1..(Len(listing) + 1)
  /\ clock \in 1..MaxClock


\* ================================================================== claims
InHandling == {"download", "route", "convert", "write", "mark", "mark_write"}

\* C1: mark_processed is reached only after the write for the same document
\* returned in the same pass, and every identifier in the ledger has a
\* completed output write.
C1_MarkOnlyAfterWrite ==
  /\ (caller = "processor" /\ pc \in {"mark", "mark_write"})
        => Document.identifier \in wrote
  /\ caller = "processor" => \A i \in LedgerKeys : writes[i] >= 1

\* A document was recorded in a pass in which an earlier attempt to write it
\* had failed in an earlier run.
C1_Witness ==
  /\ caller = "processor"
  /\ \E i \in LedgerKeys : i \in wrote /\ marks[i] = 1 /\ faults >= 1 /\ restarts >= 1

\* C2: once an identifier is in the ledger it stays there and run_once does
\* no download, routing, conversion, write or second recording for it; a
\* pass that returns has recorded every listed document and counts only the
\* documents it wrote.
C2_State ==
  caller = "processor" =>
    /\ pc \in InHandling => Document.identifier \notin LedgerKeys
    /\ \A i \in DocIds : marks[i] = IF i \in LedgerKeys THEN 1 ELSE 0
    /\ \A i \in LedgerKeys : i \notin crashedAfterWrite => writes[i] = 1
    /\ pc = "returned" => /\ Ids(listing) \subseteq LedgerKeys
                          /\ processed = Cardinality(wrote)

C2_Step ==
  \A i \in DocIds :
    i \in LedgerKeys =>
      /\ i \in LedgerKeys'
      /\ caller = "processor" =>
           /\ writes'[i] = writes[i]
           /\ pathsOf'[i] = pathsOf[i]
           /\ i \notin attempted' \ attempted

\* C2: both parts, in every state and over every step.
C2_IdempotentDedup == []C2_State /\ [][C2_Step]_vars

\* A second pass in the same process over a listing that was already
\* recorded: nothing written, 0 returned.
C2_Witness ==
  /\ caller = "processor"
  /\ pc = "returned"
  /\ Len(listing) >= 2
  /\ processed = 0
  /\ wrote = {} /\ attempted = {}
  /\ restarts = 0 /\ crashes = 0 /\ faults = 0

\* C3: when the handling of one document raises, run_once goes on with the
\* remaining documents of the listing: at the end of the pass every listed
\* document that did not fail itself is recorded.
C3_ErrorIsolation ==
  (caller = "processor" /\ pc \in {"returned", "raised"} /\ failed # {})
     => \A i \in Ids(listing) : i \in failed \/ i \in LedgerKeys


\* ------------------------------------------------------ fair specification
\* The steps the running process takes by itself.
ProgramStep ==
  \/ PostInit
  \/ WriteOpen
  \/ WriteDump
  \/ WriteReplace
  \/ ListPdfs
  \/ Gate
  \/ DownloadPdf
  \/ SelectPipeline
  \/ Convert
  \/ WriteOutput
  \/ MarkRead
  \/ Sleep

\* run_forever with one document that fails on every attempt, no other
\* error, no kill: the process runs as long as it has a step to take.
LiveInit ==
  InitWith({"processor"}, {{i} : i \in DocIds}, MaxFaults, MaxCrashes, MaxRestarts)

LiveNext ==
  \/ ProgramStep
  \/ Arrive
  \/ Tick

LiveSpec == LiveInit /\ [][LiveNext]_vars /\ WF_vars(ProgramStep)

\* C4: under run_forever with one document failing on every attempt, the
\* loop keeps starting passes, and every other document in the folder is
\* eventually recorded.
C4_PollLoopLiveness ==
  /\ []<>(pc = "run")
  /\ \A d \in Docs :
       (d \in folder /\ d.identifier \notin bad) ~> (d.identifier \in LedgerKeys)

\* C5: a document whose handling failed in a pass is not recorded by that
\* pass, and the next pass that lists it invokes download_pdf for it.
C5_RetryNextPass ==
  caller = "processor" =>
    /\ failed \cap LedgerKeys = {}
    /\ pc \in {"returned", "raised"} => mustRetry \subseteq attempted

\* C6 (as stated): after a kill between the write of d and the ledger commit,
\* the next run writes d again, records it once, and d has a single artifact
\* path, whatever the handler and the document.
C6_CrashRewriteSameArtifact ==
  caller = "processor" =>
    \A i \in crashedAfterWrite :
       i \in LedgerKeys =>
         /\ Cardinality(pathsOf[i]) = 1
         /\ marks[i] = 1
         /\ writes[i] >= 2

\* C6 (amended): the same for PDFProcessor with the plain MarkdownOutputHandler
\* and a document that has a modified_at: the second run writes the note to
\* the path of the first write, which exists afterwards, and a write of that
\* handler leaves the files at all other paths as they were.
C6_FilesystemState ==
  (caller = "processor" /\ variant = "pdf" /\ mdHandler = "filesystem") =>
    \A i \in crashedAfterWrite :
       (i \in LedgerKeys /\ DocOf(i).modified_at # NoTime) =>
         /\ Cardinality(pathsOf[i]) = 1
         /\ \A path \in pathsOf[i] : Exists(dest, path)
         /\ marks[i] = 1
         /\ writes[i] >= 2

C6_FilesystemStep ==
  (caller = "processor" /\ variant = "pdf" /\ mdHandler = "filesystem"
     /\ pc = "write") =>
    \A f \in dest : f.path # PrimaryPath(TargetPaths) => f \in dest'

\* C6 (amended): both parts, in every state and over every step.
C6_FilesystemRewrite == []C6_FilesystemState /\ [][C6_FilesystemStep]_vars

C6_Witness ==
  /\ caller = "processor" /\ variant = "pdf" /\ mdHandler = "filesystem"
  /\ clock > 1
  /\ \E i \in crashedAfterWrite :
       /\ i \in LedgerKeys
       /\ DocOf(i).modified_at # NoTime
       /\ writes[i] >= 2
       /\ \E f \in dest : f.doc # i

\* C7: the real ledger path never holds a partly written file; it changes
\* only by the rename, to the whole new ledger, so a kill at any step of
\* _write_state leaves the whole previous or the whole new ledger.
C7_State == fs[StatePath].exists => fs[StatePath].complete

C7_Step ==
  fs'[StatePath] # fs[StatePath] =>
    /\ wpc = "dumped"
    /\ fs'[StatePath] = TextFile(wstate, TRUE)

\* C7: both parts, in every state and over every step.
C7_AtomicLedgerWrite == []C7_State /\ [][C7_Step]_vars

\* Killed between the temp-file write and the rename: the temp file holds
\* the new ledger, the real path still the previous, non-empty one.
C7_Witness ==
  /\ pc = "crashed"
  /\ fs[TmpPath(StatePath)].exists /\ fs[TmpPath(StatePath)].complete
  /\ fs[StatePath].exists /\ fs[StatePath].complete
  /\ Keys(fs[StatePath].processed) # {}
  /\ fs[TmpPath(StatePath)].processed # fs[StatePath].processed

\* C8: has_processed returns true exactly for the keys of the ledger on disk,
\* also for keys written by an earlier process, and constructing a
\* ProcessingState over an existing ledger file leaves the file as it is.
C8_State ==
  (ev.op = "has_processed" /\ pc # "raised") => (ev.ret = (ev.doc \in LedgerKeys))

C8_Step ==
  (pc \in {"boot", "init_write"} /\ fs[StatePath].exists)
     => fs'[StatePath] = fs[StatePath]

\* C8: both parts, in every state and over every step.
C8_HasProcessedReadsDisk == []C8_State /\ [][C8_Step]_vars

\* In the first pass of a restarted process has_processed returned true for
\* a document recorded by the killed process.
C8_Witness ==
  /\ caller = "processor"
  /\ crashes = 1 /\ restarts = 1 /\ faults = 0
  /\ 2 \in crashedAfterWrite /\ 2 \notin LedgerKeys
  /\ ev = Event("has_processed", 1, TRUE)

\* C9: the commit of mark_processed(id, name) makes the key set the previous
\* one plus id, leaves every other record as it was, and stores name (or the
\* identifier when name is empty) for id.
C9_Step ==
  (pc = "mark_write" /\ wpc = "dumped" /\ wpc' = "none" /\ pc' # "crashed") =>
    LET id == Document.identifier
    IN /\ Keys(Ledger') = Keys(Ledger) \cup {id}
       /\ \A k \in Keys(Ledger) \ {id} : Ledger'[k] = Ledger[k]
       /\ Ledger'[id].name =
            (IF Document.name = <<>> THEN IdText(id) ELSE Document.name)
       /\ Ledger'[id].timestamp \in 1..clock

\* C9: over every step.
C9_MarkProcessedLocal == [][C9_Step]_vars

\* An identifier was marked a second time, under another name, while
\* another identifier was in the ledger.
C9_Witness ==
  /\ caller = "client"
  /\ pc = "client"
  /\ ev.op = "mark_processed"
  /\ marks[1] = 2
  /\ LedgerKeys = {1, 2}
  /\ Ledger[1].name = IdText(1)

\* C10: the key set of the persisted ledger never shrinks and the file,
\* once created, stays.
C10_Step ==
  /\ LedgerKeys \subseteq LedgerKeys'
  /\ fs[StatePath].exists => fs'[StatePath].exists

\* C10: over every step.
C10_LedgerMonotone == [][C10_Step]_vars

\* A restarted process constructed its ProcessingState over a ledger that
\* held document 1 and then added document 2, in a later pass than the one
\* that recorded document 1.
C10_Witness ==
  /\ caller = "processor"
  /\ restarts = 1 /\ crashes = 1 /\ faults = 0
  /\ 2 \in crashedAfterWrite
  /\ LedgerKeys = {1, 2}
  /\ Ledger[1].timestamp < Ledger[2].timestamp

\* Identifiers the current pass has written and recorded.
MarkedInPass == wrote \cap LedgerKeys

C22_State ==
  caller = "processor" =>
    /\ pc \in InHandling \cup {"gate", "returned"} =>
         processed = Cardinality(MarkedInPass)
    /\ pc = "returned" =>
         /\ processed = Cardinality(wrote)
         /\ processed = Cardinality(attempted)
         /\ wrote = attempted
         /\ wrote \subseteq Ids(listing) \cap LedgerKeys

C22_Step ==
  caller = "processor" =>
    /\ processed' # processed =>
         \/ processed' = 0 /\ pc \in {"run", "crashed", "raised"}
         \/ /\ processed' = processed + 1
            /\ pc = "mark_write" /\ wpc = "dumped"
            /\ Document.identifier \in wrote \ LedgerKeys
            /\ LedgerKeys' = LedgerKeys \cup {Document.identifier}
            /\ marks'[Document.identifier] = marks[Document.identifier] + 1
    /\ marks' # marks => processed' = processed + 1
    /\ writes' # writes =>
         /\ pc = "write" /\ pc' = "mark"
         /\ Document.identifier \notin wrote
         /\ wrote' = wrote \cup {Document.identifier}
    /\ attempted' # attempted =>
         /\ pc = "download" \/ (pc = "run" /\ attempted' = {})
         /\ pc = "download" =>
              /\ Document.identifier \notin LedgerKeys
              /\ attempted' = attempted \cup {Document.identifier}
    /\ (pc = "gate" /\ pc' = "download") => Document.identifier \notin LedgerKeys
    /\ (pc = "gate" /\ pc' = "gate") =>
         Document.identifier \in LedgerKeys /\ idx' = idx + 1

\* C22: the integer run_once returns is the number of identifiers the pass
\* recorded with mark_processed, which is the number of output writes it
\* performed and the number of listed identifiers it found absent from the
\* ledger at its dedup gate; the counter moves only with a committed
\* mark_processed.
C22_ReturnsCount == []C22_State /\ [][C22_Step]_vars

\* A pass over three listed documents, one recorded by an earlier pass,
\* returned 2.
C22_Witness ==
  /\ caller = "processor"
  /\ pc = "returned"
  /\ Len(listing) = 3
  /\ processed = 2
  /\ Cardinality(wrote) = 2
  /\ LedgerKeys = DocIds
  /\ faults = 0 /\ crashes = 0

\* The dedup gate is about to test a listed document that is in the ledger.
AtGateOfRecorded ==
  /\ caller = "processor"
  /\ pc = "gate"
  /\ idx <= Len(listing)
  /\ Document.identifier \in LedgerKeys

C23_State ==
  caller = "processor" =>
    /\ pc \in InHandling => Document.identifier \notin LedgerKeys
    /\ pc = "returned" => attempted = wrote

C23_Step ==
  (AtGateOfRecorded /\ pc' # "crashed") =>
    /\ pc' = "gate" /\ idx' = idx + 1
    /\ ev' = Event("has_processed", Document.identifier, TRUE)
    /\ fs' = fs /\ dest' = dest /\ remote' = remote
    /\ processed' = processed
    /\ attempted' = attempted /\ wrote' = wrote
    /\ writes' = writes /\ marks' = marks /\ pathsOf' = pathsOf
    /\ wstate' = wstate /\ wpc' = wpc

\* C23: for a listed document whose identifier is in the ledger, run_once
\* only calls has_processed and moves to the next document: no download,
\* routing, conversion or write is made for it, and the ledger file, the
\* destination, the Drive folder and the counter stay as they were.
C23_DedupGateNoEffects == []C23_State /\ [][C23_Step]_vars

\* A pass over three listed documents skipped the two recorded by an
\* earlier pass and handled only the third.
C23_Witness ==
  /\ caller = "processor"
  /\ pc = "returned"
  /\ Len(listing) = 3
  /\ processed = 1
  /\ wrote = {3} /\ attempted = {3}
  /\ \A i \in DocIds : writes[i] = 1 /\ marks[i] = 1
  /\ restarts = 0

\* ===================================== the agentic processor, one error
\* AgenticProcessor under run_forever with at most one error in the whole
\* run (of the connector, the classifier, the backend or a handler), no kill
\* and no restart.
AgenticInit ==
  /\ InitWith({"processor"}, {{}}, MaxFaults - 1, MaxCrashes, MaxRestarts)
  /\ variant = "agentic"

AgenticNext ==
  \/ ProgramStep
  \/ Arrive
  \/ Tick

AgenticSpec == AgenticInit /\ [][AgenticNext]_vars

\* run_once is handling document i on the markdown route, past the routing.
OnMarkdownRoute(i) ==
  /\ pc \in {"convert", "write", "mark", "mark_write"}
  /\ Document.identifier = i
  /\ pipeline = "markdown"

\* Document i is recorded and what was written for it is a note of the
\* markdown handler, written once; the Drive folder holds one file for each
\* document that has a mindmap, so none for i.
RecordedAsMarkdown(i) ==
  /\ i \in LedgerKeys
  /\ i \in wrote
  /\ writes[i] = 1 /\ marks[i] = 1
  /\ pathsOf[i] # {}
  /\ \A path \in pathsOf[i] : path.ext = "md" /\ Exists(dest, path)
  /\ Len(remote) = Cardinality({j \in DocIds : \E path \in pathsOf[j] : path.ext = "mm"})

C21_State ==
  \A i \in unclassified :
     /\ pc # "raised"
     /\ i \notin failed
     /\ OnMarkdownRoute(i) \/ RecordedAsMarkdown(i)
     /\ pc = "returned" => RecordedAsMarkdown(i) /\ processed = Cardinality(wrote)

C21_Step ==
  (pc = "route" /\ ev'.op = "classify_document" /\ ~ev'.ret) =>
    /\ pc' = "convert"
    /\ pipeline' = "markdown"
    /\ idx' = idx /\ listing' = listing
    /\ failed' = failed
    /\ Document.identifier \in unclassified'

\* C21: when classify_document raises, the exception does not leave
\* run_once: the document goes on to the markdown conversion, and from then
\* on (no other error occurring) it is either still being handled on the
\* markdown route or written once by the markdown handler and recorded; a
\* pass that returns has recorded and counted it.
C21_ClassifyFailOpen == []C21_State /\ [][C21_Step]_vars

\* The classifier sent document 1 to the mindmap pipeline and raised for
\* document 2; the pass returned 2 with document 2 recorded as a note.
C21_Witness ==
  /\ variant = "agentic"
  /\ unclassified = {2}
  /\ pc = "returned" /\ processed = 2
  /\ Len(remote) = 1
  /\ RecordedAsMarkdown(2)
  /\ \E path \in pathsOf[1] : path.ext = "mm"

\* =========================================== threads sharing one ledger
\* Several threads call has_processed and mark_processed on one
\* ProcessingState instance.  Thread t marks the identifier t, without a
\* name, and asks for any of the identifiers.

\* with self._lock: a thread enters only while no thread holds the lock.
LockFreeUnchecked(l) == TRUE
LockFree(l) == l = 0

\* The ledger directory once ProcessingState(path) is constructed.
ConstructedFiles == [NoFiles EXCEPT ![StatePath] = TextFile(EmptyLedger, TRUE)]

ThreadInit ==
  /\ ProcessorInit({"client"}, {{}}, MaxFaults, MaxCrashes, MaxRestarts,
                   {ConstructedFiles})
  /\ ThreadsIdle
  /\ HandlerIdle
  /\ FnIdle

\* has_processed(document_id): lock, _read_state, membership test, unlock.
\* seen keeps what was returned and whether the mark of that identifier had
\* returned before this call.
ThreadHasProcessed(t) ==
  /\ thr[t].pc = "idle"
  /\ thr[t].calls < CountCap
  /\ LockFree(lock)
  /\ \E id \in Threads :
       LET file == fs[StatePath]
       IN thr' = [thr EXCEPT ![t] =
                    [@ EXCEPT !.calls = @ + 1,
                              !.partial = @ \/ ~ReadOk(file),
                              !.seen = [id |-> id,
                                        ret |-> /\ ReadOk(file)
                                                /\ HasProcessed(ProcessedOf(file), id),
                                        marked |-> thr[id].returned]]]
  /\ UNCHANGED <<lock, fs, dest, remote, clock, procVars, handlerVars, fnVars>>

\* mark_processed(document_id): lock, _read_state, set the record.
ThreadMarkRead(t) ==
  /\ thr[t].pc = "idle"
  /\ thr[t].calls < CountCap
  /\ LockFree(lock)
  /\ LET file == fs[StatePath]
     IN IF ReadOk(file)
        THEN /\ lock' = t
             /\ thr' = [thr EXCEPT ![t] =
                          [@ EXCEPT !.pc = "start",
                                    !.state = Marked(ProcessedOf(file), t, <<>>, clock)]]
        ELSE /\ lock' = lock
             /\ thr' = [thr EXCEPT ![t] =
                          [@ EXCEPT !.calls = @ + 1, !.partial = TRUE]]
  /\ UNCHANGED <<fs, dest, remote, clock, procVars, handlerVars, fnVars>>

\* _write_state in the thread: tmp_path.open("w")
ThreadWriteOpen(t) ==
  /\ thr[t].pc = "start"
  /\ fs' = [fs EXCEPT ![TmpPath(StatePath)] = TextFile(EmptyLedger, FALSE)]
  /\ thr' = [thr EXCEPT ![t] = [@ EXCEPT !.pc = "opened"]]
  /\ UNCHANGED <<lock, dest, remote, clock, procVars, handlerVars, fnVars>>

\* json.dump and close
ThreadWriteDump(t) ==
  /\ thr[t].pc = "opened"
  /\ fs' = [fs EXCEPT ![TmpPath(StatePath)] = TextFile(thr[t].state, TRUE)]
  /\ thr' = [thr EXCEPT ![t] = [@ EXCEPT !.pc = "dumped"]]
  /\ UNCHANGED <<lock, dest, remote, clock, procVars, handlerVars, fnVars>>

\* tmp_path.replace(self.path), the with block ends, mark_processed returns.
ThreadWriteReplace(t) ==
  /\ thr[t].pc = "dumped"
  /\ fs' = Replaced(fs, TmpPath(StatePath), StatePath)
  /\ lock' = 0
  /\ thr' = [thr EXCEPT ![t] =
               [@ EXCEPT !.pc = "idle", !.calls = @ + 1, !.returned = TRUE]]
  /\ UNCHANGED <<dest, remote, clock, procVars, handlerVars, fnVars>>

ThreadNext ==
  \E t \in Threads :
    \/ ThreadHasProcessed(t)
    \/ ThreadMarkRead(t)
    \/ ThreadWriteOpen(t)
    \/ ThreadWriteDump(t)
    \/ ThreadWriteReplace(t)

ThreadSpec == ThreadInit /\ [][ThreadNext]_vars

\* C11: with several threads marking distinct identifiers and asking on one
\* instance, at most one thread is inside a read-modify-write cycle, every
\* identifier whose mark_processed returned is in the ledger, no call read a
\* partly written ledger, and has_processed returns true for an identifier
\* whose mark had returned before the call.
C11_LockSerializes ==
  /\ \A t \in Threads : thr[t].pc # "idle" => lock = t
  /\ \A t \in Threads : thr[t].returned => t \in LedgerKeys
  /\ \A t \in Threads : ~thr[t].partial
  /\ \A t \in Threads : thr[t].seen.marked => thr[t].seen.ret
  /\ fs[StatePath].exists /\ fs[StatePath].complete

\* Both threads marked; one asked before the other's mark and got false, the
\* other asked after it and got true.
C11_Witness ==
  /\ thr[1].returned /\ thr[2].returned
  /\ LedgerKeys = {1, 2}
  /\ thr[1].seen = [id |-> 2, ret |-> TRUE, marked |-> TRUE]
  /\ thr[2].seen = [id |-> 1, ret |-> FALSE, marked |-> FALSE]
  /\ lock = 0

\* ================================================ a ledger found corrupt
\* The process starts over a ledger file it did not write: unparseable, or a
\* JSON object without the "processed" key.  No other error and no kill.
CorruptFiles ==
  {[NoFiles EXCEPT ![StatePath] = file] : file \in {UnparseableFile, UnkeyedFile}}

CorruptInit ==
  /\ ProcessorInit({"processor", "client"}, {{}}, MaxFaults, MaxCrashes, 0,
                   CorruptFiles)
  /\ ThreadsIdle
  /\ HandlerIdle
  /\ FnIdle

CorruptNext ==
  \/ ProgramStep
  \/ ClientHasProcessed
  \/ ClientMarkProcessed
  \/ Restart
  \/ Arrive
  \/ Tick

CorruptSpec == CorruptInit /\ [][CorruptNext]_vars

Unparseable(file) == file.exists /\ ~file.complete
Unkeyed(file) == file.exists /\ file.complete /\ ~file.keyed

\* has_processed, resp. mark_processed, was the last call and it returned.
HasProcessedReturned == ev.op = "has_processed" /\ pc # "raised"
MarkProcessedReturned == ev.op = "mark_processed"

\* C12 (as stated): while the ledger file is unparseable or lacks the
\* "processed" mapping, no has_processed or mark_processed call returns, the
\* processor handles no document, and the file stays as it is.
C12_State ==
  (Unparseable(fs[StatePath]) \/ Unkeyed(fs[StatePath])) =>
    /\ ~HasProcessedReturned
    /\ ~MarkProcessedReturned
    /\ caller = "processor" => pc \notin InHandling

C12_Step ==
  (Unparseable(fs[StatePath]) \/ Unkeyed(fs[StatePath])) =>
    fs'[StatePath] = fs[StatePath]

C12_NoSilentReset == []C12_State /\ [][C12_Step]_vars

\* C12 (amended): over an unparseable ledger file no has_processed or
\* mark_processed call returns, the processor handles no document and writes
\* nothing, and the file stays as it is; a JSON object without the
\* "processed" key is read as the empty ledger: has_processed returns false,
\* and the file changes only by the rename of a mark_processed, to a ledger
\* that holds exactly the marked identifier.
C12_UnparseableState ==
  Unparseable(fs[StatePath]) =>
    /\ ~HasProcessedReturned
    /\ ~MarkProcessedReturned
    /\ caller = "processor" => pc \notin InHandling
    /\ dest = {} /\ remote = <<>>
    /\ \A i \in DocIds : writes[i] = 0 /\ marks[i] = 0

C12_UnkeyedState ==
  (Unkeyed(fs[StatePath]) /\ HasProcessedReturned) => ev.ret = FALSE

C12_CorruptStep ==
  /\ Unparseable(fs[StatePath]) => fs'[StatePath] = fs[StatePath]
  /\ (Unkeyed(fs[StatePath]) /\ fs'[StatePath] # fs[StatePath]) =>
       /\ pc = "mark_write" /\ wpc = "dumped"
       /\ fs'[StatePath] =
            TextFile(Marked(EmptyLedger, Document.identifier, Document.name,
                            wstate[Document.identifier].timestamp), TRUE)

C12_CorruptLedger ==
  [](C12_UnparseableState /\ C12_UnkeyedState) /\ [][C12_CorruptStep]_vars

\* The processor raised at the first has_processed of a non-empty listing,
\* was started again and raised there again, the unparseable file untouched.
C12_Witness ==
  /\ caller = "processor"
  /\ Unparseable(fs[StatePath])
  /\ pc = "raised"
  /\ restarts = 1
  /\ Len(listing) >= 2
  /\ ev = Event("has_processed", 1, FALSE)

\* ====================================== output handlers under direct use
\* A caller makes up to MaxWrites write calls on one output handler.
\*   "filesystem"  ink2md MarkdownOutputHandler (no asset directory)
\*   "git"         ink2md GitMarkdownOutputHandler
\*   "obsidian"    ink2md ObsidianVaultOutputHandler
\*   "drive"       GoogleDriveMindmapOutputHandler
\*   "legacy"      cloud_monitor_pdf2md MarkdownOutputHandler
\*   "legacy_git"  cloud_monitor_pdf2md GitMarkdownOutputHandler
GitKinds == {"git", "legacy_git", "obsidian"}
LegacyKinds == {"legacy", "legacy_git"}
Handlers ==
  {h \in [kind : {"filesystem", "git", "obsidian", "drive", "legacy", "legacy_git"},
          push : BOOLEAN, media_mode : {"pdf", "png"}] :
     /\ h.push => h.kind \in GitKinds
     /\ h.media_mode = "png" => h.kind = "obsidian"}

\* The inputs of write besides the document: one of two texts (markdown or
\* mindmap), and the pdf bytes, of which only the page count matters.
Texts == {1, 2}
PageCounts == {1, 2}
Content(document, text) == [id |-> document.identifier, text |-> text]

\* cloud_monitor_pdf2md MarkdownOutputHandler.write: "<safe_name>.md"
LegacyStem(document) ==
  [name |-> SanitizeName(document.name, <<"document">>),
   suffix |-> NoTime, counters |-> <<>>]
LegacyPaths(files, document, now) ==
  <<PathOf("notes", LegacyStem(document), "md")>>

\* _render_pdf_to_images: f"{base_stem}-p{index:02d}"; the page part is kept
\* in counters as the negated page index.
PageStem(stem, index) == [stem EXCEPT !.counters = @ \o <<0 - index>>]

RECURSIVE RenderPaths(_, _, _, _)
RenderPaths(files, stem, index, pages) ==
  IF index > pages THEN <<>>
  ELSE LET image_path == UniquePath(files, "media", PageStem(stem, index), "png")
       IN <<image_path>> \o
          RenderPaths(WriteFile(files, image_path, 0), stem, index + 1, pages)

\* ObsidianVaultOutputHandler.write, media_mode "png": the page images are
\* written first, then the note.
ObsidianImagePaths(files, document, now, pages) ==
  LET markdown_path ==
        UniquePath(files, "notes", BuildBasename(document, now, <<"document">>), "md")
  IN RenderPaths(files, markdown_path.stem, 1, pages) \o <<markdown_path>>

\* The paths a write of handler h stores, the note or mindmap last.
HandlerPaths(h, files, document, now, pages) ==
  CASE h.kind = "obsidian" /\ h.media_mode = "pdf" -> ObsidianPaths(files, document, now)
    [] h.kind = "obsidian" /\ h.media_mode = "png" ->
         ObsidianImagePaths(files, document, now, pages)
    [] h.kind = "drive" -> MindmapPaths(files, document, now)
    [] h.kind \in LegacyKinds -> LegacyPaths(files, document, now)
    [] OTHER -> FilesystemPaths(files, document, now)

PathSet(paths) == {paths[i] : i \in DOMAIN paths}

\* git add <paths>: the index takes the work tree's content of the paths.
GitAdd(index, files, paths) ==
  {f \in index : f.path \notin PathSet(paths)}
     \cup {f \in files : f.path \in PathSet(paths)}

\* git diff --cached --quiet -- <paths> returned 1
HasStagedChangesAlways(index, head, paths) == TRUE
HasStagedChanges(index, head, paths) ==
  \E p \in PathSet(paths) : {f \in index : f.path = p} # {f \in head : f.path = p}

\* ObsidianVaultOutputHandler._has_any_staged_changes: git diff --cached
\* --quiet over the whole index.
HasAnyStagedChanges(index, head) == index # head

\* git reset HEAD -- <paths>
ResetPaths(index, head, paths) ==
  {f \in index : f.path \notin PathSet(paths)}
     \cup {f \in head : f.path \in PathSet(paths)}

\* commit_message_template.format(document_name=..., document_identifier=...
\* [, markdown_path=...]): the values substituted into the template.
CommitMessageUnformatted(h, document, markdown_path) ==
  IF h.kind = "obsidian"
  THEN [document_name |-> <<>>, document_identifier |-> <<>>,
        markdown_path |-> markdown_path]
  ELSE [document_name |-> <<>>, document_identifier |-> <<>>]
CommitMessage(h, document, markdown_path) ==
  IF h.kind = "obsidian"
  THEN [document_name |-> document.name,
        document_identifier |-> IdText(document.identifier),
        markdown_path |-> markdown_path]
  ELSE [document_name |-> document.name,
        document_identifier |-> IdText(document.identifier)]

\* The git commands one write runs, in order.
GitOps(h, changed) ==
  IF h.kind \notin GitKinds THEN <<>>
  ELSE IF ~changed THEN <<"add", "diff", "reset">>
  ELSE <<"add", "diff">>
       \o (IF h.kind = "obsidian" /\ h.push THEN <<"pull">> ELSE <<>>)
       \o <<"commit">>
       \o (IF h.push THEN <<"push">> ELSE <<>>)

\* What the call record keeps of a call for the next one.
Inputs(c) == [document |-> c.document, text |-> c.text, pages |-> c.pages, now |-> c.now]

HandlerInit ==
  /\ ProcessorInit({"client"}, {{}}, MaxFaults, MaxCrashes, MaxRestarts, {NoFiles})
  /\ ThreadsIdle
  /\ FnIdle
  /\ handler \in Handlers
  /\ repo = EmptyRepo
  /\ call = NoCall
  /\ written = <<>>
  /\ ssh = NoSsh

\* handler.write(document, text, pdf_bytes=...)
HandlerWrite ==
  /\ call.n < MaxWrites
  /\ \E document \in Docs, text \in Texts, pages \in PageCounts :
       /\ handler.media_mode = "pdf" => pages = 1
       /\ LET paths == HandlerPaths(handler, dest, document, clock, pages)
              content == Content(document, text)
              stored == IF handler.kind = "drive" /\ ~KeepLocalCopy
                        THEN dest ELSE WriteAll(dest, paths, content)
              staged == GitAdd(repo.index, stored, paths)
              changed == IF handler.kind = "obsidian"
                         THEN HasAnyStagedChanges(staged, repo.head)
                         ELSE HasStagedChanges(staged, repo.head, paths)
              id == document.identifier
          IN /\ dest' = stored
             /\ remote' = IF handler.kind = "drive"
                          THEN Append(remote, PrimaryPath(paths).stem) ELSE remote
             /\ repo' =
                  IF handler.kind \notin GitKinds THEN repo
                  ELSE IF ~changed
                  THEN [repo EXCEPT !.index = ResetPaths(staged, repo.head, paths)]
                  ELSE [index |-> staged,
                        head |-> staged,
                        log |-> Append(repo.log,
                                       CommitMessage(handler, document, PrimaryPath(paths))),
                        pushed |-> IF handler.push THEN Len(repo.log) + 1
                                   ELSE repo.pushed]
             /\ call' = [n |-> call.n + 1, document |-> document, text |-> text,
                         pages |-> pages, paths |-> paths,
                         ops |-> GitOps(handler, changed), now |-> clock,
                         prev |-> Inputs(call)]
             /\ written' =
                  [i \in DOMAIN written \cup {id} |->
                     IF i = id
                     THEN [path |-> PrimaryPath(paths), content |-> content,
                           times |-> IF id \in DOMAIN written
                                     THEN Bump(written[id].times) ELSE 1]
                     ELSE written[i]]
  /\ UNCHANGED <<handler, ssh, fs, clock, procVars, threadVars, fnVars>>

\* Wall-clock time passes between two write calls.
Elapse ==
  /\ clock < MaxClock
  /\ clock' = clock + 1
  /\ UNCHANGED <<fs, dest, remote, procVars, threadVars, handlerVars, fnVars>>

HandlerNext ==
  \/ HandlerWrite
  \/ Elapse

HandlerSpec == HandlerInit /\ [][HandlerNext]_vars

\* This step is a write call; it repeats the inputs of the call before it.
WriteStep == call'.n = call.n + 1
Repeat ==
  /\ WriteStep
  /\ call.n >= 1
  /\ call'.document = call.document
  /\ call'.text = call.text
  /\ call'.pages = call.pages

\* The last call repeated the inputs of the one before it, at a later time.
Repeated ==
  /\ call.n >= 2
  /\ call.prev.document = call.document
  /\ call.prev.text = call.text
  /\ call.prev.pages = call.pages
  /\ call.prev.now < call.now

\* The document of the write is named by its modified_at or, by the legacy
\* handlers, by its name alone: the name does not depend on the wall clock.
ClockFreeName(h, document) == h.kind \in LegacyKinds \/ document.modified_at # NoTime

\* C13 (as stated): a write through a Git-backed handler that repeats the
\* (document, markdown) pair of the write before it makes no commit: it
\* stages, finds no staged diff and resets, so the revision count of HEAD
\* stays.
C13_Step ==
  (handler.kind \in GitKinds /\ Repeat) =>
    /\ Len(repo'.log) = Len(repo.log)
    /\ call'.ops = <<"add", "diff", "reset">>

C13_IdempotentCommit == [][C13_Step]_vars

\* C13 (amended): the same for GitMarkdownOutputHandler (both packages) and
\* a document whose file name does not depend on the wall clock; the
\* repeat write also leaves HEAD, the index, the pushed revision and the
\* work tree as they were.
C13_GitStep ==
  (handler.kind \in {"git", "legacy_git"} /\ Repeat
     /\ ClockFreeName(handler, call'.document)) =>
    /\ Len(repo'.log) = Len(repo.log)
    /\ call'.ops = <<"add", "diff", "reset">>
    /\ repo' = repo
    /\ dest' = dest

C13_GitIdempotentCommit == [][C13_GitStep]_vars

\* GitMarkdownOutputHandler with push enabled wrote the same pair twice, the
\* second time a second later: one commit, pushed once.
C13_Witness ==
  /\ handler.kind = "git" /\ handler.push
  /\ Repeated
  /\ call.n = 2
  /\ call.document.modified_at # NoTime
  /\ Len(repo.log) = 1 /\ repo.pushed = 1
  /\ call.ops = <<"add", "diff", "reset">>
  /\ repo.index = repo.head

\* Some written path holds content that HEAD does not have at that path.
DiffersFromHead(paths, content, head) ==
  \E p \in PathSet(paths) : [path |-> p, doc |-> content] \notin head

PushAfterCommit(ops) ==
  \A i \in DOMAIN ops : ops[i] = "push" => \E j \in 1..(i - 1) : ops[j] = "commit"

\* C14: a Git-backed write whose written paths differ from HEAD makes exactly
\* one commit, whose message carries the document's name and identifier, and
\* a push happens only after that commit and only when push is enabled.
C14_Step ==
  (handler.kind \in GitKinds /\ WriteStep) =>
    LET differs == DiffersFromHead(call'.paths,
                                   Content(call'.document, call'.text), repo.head)
        pushes == \E i \in DOMAIN call'.ops : call'.ops[i] = "push"
    IN /\ differs =>
            /\ Len(repo'.log) = Len(repo.log) + 1
            /\ SubSeq(repo'.log, 1, Len(repo.log)) = repo.log
            /\ repo'.log[Len(repo'.log)].document_name = call'.document.name
            /\ repo'.log[Len(repo'.log)].document_identifier
                 = IdText(call'.document.identifier)
            /\ pushes = handler.push
       /\ pushes => differs /\ handler.push
       /\ PushAfterCommit(call'.ops)
       /\ repo'.pushed = IF pushes THEN Len(repo'.log) ELSE repo.pushed

ArtifactIntact(w) ==
  IF handler.kind = "drive"
  THEN \E k \in DOMAIN remote : remote[k] = w.path.stem
  ELSE [path |-> w.path, doc |-> w.content] \in dest

\* C15: after writes for documents with distinct identifiers, through any
\* handler, every document's artifact exists with the content written for
\* it.
C15_NoOverwrite ==
  (\A i \in DOMAIN written : written[i].times = 1) =>
     \A i \in DOMAIN written : ArtifactIntact(written[i])

\* C16 (as stated): through every handler, a write that repeats the inputs of
\* the write before it leaves the number of destination files, of commits and
\* of remote files as it was.
C16_Step ==
  Repeat =>
    /\ Cardinality(dest') = Cardinality(dest)
    /\ Len(repo'.log) = Len(repo.log)
    /\ Len(remote') = Len(remote)

C16_RepeatAddsNothing == [][C16_Step]_vars

\* C16 (amended): the same for the filesystem and Git handlers (both
\* packages) and a document whose file name does not depend on the wall
\* clock; the destination files are then the same files with the same
\* content.
C16_PlainStep ==
  (handler.kind \in {"filesystem", "git", "legacy", "legacy_git"} /\ Repeat
     /\ ClockFreeName(handler, call'.document)) =>
    /\ Cardinality(dest') = Cardinality(dest)
    /\ Len(repo'.log) = Len(repo.log)
    /\ Len(remote') = Len(remote)
    /\ dest' = dest

C16_PlainRepeatAddsNothing == [][C16_PlainStep]_vars

\* The filesystem handler wrote a document, then another, then the second
\* again a second later: two files.
C16_Witness ==
  /\ handler.kind = "filesystem"
  /\ Repeated
  /\ call.n = 3
  /\ call.document.modified_at # NoTime
  /\ Cardinality(dest) = 2

\* C17: every path a write of the Obsidian handler stores did not exist
\* before the call, the paths of one call differ from each other, and every
\* file that existed is left as it was.
C17_Step ==
  (handler.kind = "obsidian" /\ WriteStep) =>
    /\ \A p \in PathSet(call'.paths) : ~Exists(dest, p) /\ Exists(dest', p)
    /\ Cardinality(PathSet(call'.paths)) = Len(call'.paths)
    /\ \A f \in dest : f \in dest'
    /\ Cardinality(dest') = Cardinality(dest) + Len(call'.paths)

C17_ObsidianUniquePaths == [][C17_Step]_vars

\* Three writes of two-page documents that sanitize to the same stem and
\* timestamp: notes with no counter, -1 and -2, and six page images.
C17_Witness ==
  /\ handler.kind = "obsidian" /\ handler.media_mode = "png"
  /\ call.n = 3
  /\ \A i \in {1, 2} : i \in DOMAIN written /\ written[i].path.stem.name = <<"a">>
  /\ {f.path.stem.counters : f \in {g \in dest : g.path.ext = "md"}}
       = {<<>>, <<1>>, <<2>>}
  /\ Cardinality({f \in dest : f.path.ext = "png"}) = 6

\* ============================================= the base file name (pure)
\* _build_basename is evaluated for two documents a and b, any number of
\* times, while the wall clock advances.
NameInputs == {<<>>, <<"a">>, <<"a", "/">>, <<"/">>, <<"a", " ", "m">>, <<"M">>}
Stamps == (0..MaxStamp) \cup {NoTime}
Fallbacks == {<<"document">>, <<"mindmap">>}

NameInit ==
  /\ ProcessorInit({"client"}, {{}}, MaxFaults, MaxCrashes, MaxRestarts, {NoFiles})
  /\ ThreadsIdle
  /\ HandlerIdle
  /\ arg \in {[fn |-> "basename", a |-> a, b |-> b, fallback |-> fb] :
                a \in [identifier : {1}, name : NameInputs, modified_at : Stamps],
                b \in [identifier : {2}, name : NameInputs, modified_at : Stamps],
                fb \in Fallbacks}
  /\ res = NoRes

\* handler._build_basename(a), handler._build_basename(b); first keeps what
\* the first evaluation gave for a.
BuildBasenames ==
  /\ arg.fn = "basename"
  /\ LET a == BuildBasename(arg.a, clock, arg.fallback)
         b == BuildBasename(arg.b, clock, arg.fallback)
     IN res' = [done |-> Bump(res.done), a |-> a, b |-> b,
                first |-> IF res.done = 0 THEN a ELSE res.first]
  /\ UNCHANGED <<arg, fs, dest, remote, clock, procVars, threadVars, handlerVars>>

NameNext ==
  \/ BuildBasenames
  \/ Elapse

NameSpec == NameInit /\ [][NameNext]_vars

\* The UTC second of a modified_at, as strftime("%Y%m%d%H%M%S") prints it.
SecondOf(modified_at) == modified_at \div TicksPerSecond

\* Only characters the sanitizer keeps, no hyphen at either end, not empty.
Sanitized(name, fallback) ==
  \/ name = fallback
  \/ /\ name # <<>>
     /\ \A i \in DOMAIN name : name[i] \in SafeChars
     /\ name[1] # "-" /\ name[Len(name)] # "-"

\* _build_basename(a) gives what it gave the first time: sanitized name and
\* the second of a's modified_at.
Reproducible ==
  (res.done >= 1 /\ arg.a.modified_at # NoTime) =>
    /\ res.a = res.first
    /\ Sanitized(res.a.name, arg.fallback)
    /\ res.a.suffix = SecondOf(arg.a.modified_at)
    /\ res.a.counters = <<>>

\* C18 (as stated): the base file name of a document with a modified_at is
\* the same on every call, and two documents with the same name and
\* different modified_at values get different base file names.
C18_NamingDeterminism ==
  /\ Reproducible
  /\ (res.done >= 1 /\ arg.a.modified_at # NoTime /\ arg.b.modified_at # NoTime
        /\ arg.a.name = arg.b.name /\ arg.a.modified_at # arg.b.modified_at)
       => res.a # res.b

\* C18 (amended): the same, for modified_at values that fall in different
\* UTC seconds; two documents with the same name whose modified_at values
\* fall in the same second get the same base file name.
C18_NamingBySecond ==
  /\ Reproducible
  /\ (res.done >= 1 /\ arg.a.modified_at # NoTime /\ arg.b.modified_at # NoTime
        /\ arg.a.name = arg.b.name)
       => ((res.a = res.b)
             = (SecondOf(arg.a.modified_at) = SecondOf(arg.b.modified_at)))

\* Evaluated twice, the second time later, for two documents named "a m"
\* that were modified in different seconds.
C18_Witness ==
  /\ res.done = 2
  /\ clock = MaxClock
  /\ arg.a.name = <<"a", " ", "m">> /\ arg.b.name = arg.a.name
  /\ arg.a.modified_at = 1 /\ arg.b.modified_at = 2
  /\ res.a.name = <<"a", "-", "m">>
  /\ res.a # res.b

\* ================================================ agentic routing (pure)
\* _select_pipeline is evaluated for one document name, one hashtag
\* configuration and one behaviour of the classifier.
RECURSIVE SeqsUpTo(_, _)
SeqsUpTo(chars, n) ==
  IF n = 0 THEN {<<>>}
  ELSE LET shorter == SeqsUpTo(chars, n - 1)
       IN shorter \cup {Append(q, c) : q \in shorter, c \in chars}

RouteNames == SeqsUpTo({"a", "m", "M", "#"}, MaxLen)
HashtagConfigs == {{MmTag}, {<<"#", "m", "m">>}, {<<"#", "M", "m">>, <<"a", "a", "a">>}}

\* Texts a classifier (or, for the Gemini client, the model) may answer:
\* "mindmap", " Mindmap ", "a mindmap", "Mindmap.", "markdown", "mind map", "".
AnswerTexts ==
  ClassifierAnswers \cup
  {<<"M", "i", "n", "d", "m", "a", "p", ".">>,
   <<"m", "i", "n", "d", " ", "m", "a", "p">>,
   <<>>}

\* _unwrap_code_fences: value.strip() when the text does not start with a
\* code fence (no text here does).
UnwrapCodeFences(value) == StripWs(value)

\* GeminiLLMClient.classify_document: "mindmap" when the name has "#mm" or
\* "#mindmap" or the model's text, unwrapped, stripped and lowercased,
\* contains "mindmap"; else "markdown".
ClassifyGemini(name, text) ==
  LET lowered == Lower(name)
      decision == Lower(StripWs(UnwrapCodeFences(text)))
  IN IF \/ Contains(lowered, <<"#", "m", "m">>)
        \/ Contains(lowered, <<"#">> \o MindmapLabel)
     THEN MindmapLabel
     ELSE IF Contains(decision, MindmapLabel) THEN MindmapLabel ELSE MarkdownLabel

\* AgenticProcessor._select_pipeline.  client "label": classify_document
\* returns text as it is; client "gemini": text is the model's answer.
\* classified counts the classify_document calls.
SelectPipelineOf(name, hashtags, client, text, raises) ==
  IF HasMindmapHashtag(name, hashtags)
  THEN [pipeline |-> "mindmap", classified |-> 0]
  ELSE IF raises
  THEN [pipeline |-> "markdown", classified |-> 1]
  ELSE LET decision == IF client = "gemini" THEN ClassifyGemini(name, text) ELSE text
       IN [pipeline |-> IF LowerStripAnswer(decision) = MindmapLabel
                        THEN "mindmap" ELSE "markdown",
           classified |-> 1]

RouteInit ==
  /\ ProcessorInit({"client"}, {{}}, MaxFaults, MaxCrashes, MaxRestarts, {NoFiles})
  /\ ThreadsIdle
  /\ HandlerIdle
  /\ arg \in [fn : {"route"}, name : RouteNames, hashtags : HashtagConfigs,
              client : {"label", "gemini"}, text : AnswerTexts, raises : BOOLEAN]
  /\ res = NoRes

Route ==
  /\ arg.fn = "route"
  /\ res.done = 0
  /\ LET r == SelectPipelineOf(arg.name, arg.hashtags, arg.client, arg.text, arg.raises)
     IN res' = [done |-> 1, pipeline |-> r.pipeline, classified |-> r.classified]
  /\ UNCHANGED <<arg, fs, dest, remote, clock, procVars, threadVars, handlerVars>>

RouteNext == Route

RouteSpec == RouteInit /\ [][RouteNext]_vars

\* The tag without its leading '#' characters occurs in the name, letter case
\* aside.
BareTag(tag) == LStrip(tag, "#")
ContainsToken(name, hashtags) ==
  \E tag \in hashtags :
    \E offset \in 0..(Len(name) - Len(BareTag(tag))) :
      \A j \in 1..Len(BareTag(tag)) :
        LowerChar(name[offset + j]) = LowerChar(BareTag(tag)[j])

PyNone == [t |-> "none"]
PyStr(chars) == [t |-> "str", v |-> chars]
PyInt(n) == [t |-> "int", v |-> n]
PyBool(b) == [t |-> "bool", v |-> b]
PyFloat == [t |-> "float"]
PyList(items) == [t |-> "list", v |-> items]
PyDict(items) == [t |-> "dict", v |-> items]

\* isinstance(value, int): bool is a subclass of int.
IsInstanceInt(value) == value.t \in {"int", "bool"}

\* data.get(key)
Get(data, key) == IF key \in DOMAIN data.v THEN data.v[key] ELSE PyNone

\* str.isdigit(): not empty and every character a digit; the characters
\* here are the ASCII digits "0", "3", "7" and SUPERSCRIPT TWO, a digit for
\* isdigit() that int() does not accept.
AsciiDigits == {"0", "3", "5", "7"}
DigitChars == AsciiDigits \cup {"sup2"}
IsDigit(chars) == chars # <<>> /\ \A i \in DOMAIN chars : chars[i] \in DigitChars

DigitValue(c) == CASE c = "0" -> 0 [] c = "3" -> 3 [] c = "5" -> 5 [] c = "7" -> 7

\* int(chars) for a string of ASCII digits
RECURSIVE IntOf(_)
IntOf(chars) ==
  IF chars = <<>> THEN 0
  ELSE 10 * IntOf(SubSeq(chars, 1, Len(chars) - 1)) + DigitValue(chars[Len(chars)])

\* MindmapNode(text, children, link, color, priority)
MindmapNode(text, children, link, color, priority) ==
  [text |-> text, children |-> children, link |-> link, color |-> color,
   priority |-> priority]

\* What a call gives: a value, or the exception it raised.
Returned(value) == [ok |-> TRUE, value |-> value]
RaisedError(error) == [ok |-> FALSE, error |-> error]
ValidationError == RaisedError("MindmapValidationError")

NodeKeys == {"text", "children", "link", "color", "priority"}

\* link.strip() if isinstance(link, str) else None
StrippedOrNoneDropped(value) == PyNone
StrippedOrNone(value) == IF value.t = "str" THEN PyStr(StripWs(value.v)) ELSE PyNone

\* MindmapNode.from_dict
RECURSIVE FromDict(_)
FromDict(data) ==
  IF data.t # "dict" THEN ValidationError
  ELSE IF DOMAIN data.v \ NodeKeys # {} THEN ValidationError
  ELSE
    LET text == Get(data, "text")
        children_data == IF Get(data, "children").t = "none"
                         THEN PyList(<<>>) ELSE Get(data, "children")
        link == Get(data, "link")
        color == Get(data, "color")
        priority_raw == Get(data, "priority")
    IN
      IF text.t # "str" THEN ValidationError
      ELSE IF StripWs(text.v) = <<>> THEN ValidationError
      ELSE IF children_data.t # "list" THEN ValidationError
      ELSE
        LET children == [i \in DOMAIN children_data.v |-> FromDict(children_data.v[i])]
            raising == {i \in DOMAIN children : ~children[i].ok}
        IN
          IF raising # {}
          THEN children[CHOOSE i \in raising : \A j \in raising : i <= j]
          ELSE IF link.t \notin {"none", "str"} THEN ValidationError
          ELSE IF color.t \notin {"none", "str"} THEN ValidationError
          ELSE IF priority_raw.t # "none" /\ ~IsInstanceInt(priority_raw)
                  /\ ~(priority_raw.t = "str" /\ IsDigit(StripWs(priority_raw.v)))
          THEN ValidationError
          ELSE IF priority_raw.t = "str"
                  /\ \E i \in DOMAIN StripWs(priority_raw.v) :
                        StripWs(priority_raw.v)[i] \notin AsciiDigits
          THEN RaisedError("ValueError")
          ELSE Returned(MindmapNode(
                 StripWs(text.v),
                 [i \in DOMAIN children |-> children[i].value],
                 StrippedOrNone(link),
                 StrippedOrNone(color),
                 IF priority_raw.t = "str"
                 THEN PyInt(IntOf(StripWs(priority_raw.v))) ELSE priority_raw))

\* Mindmap.from_mapping: the Mindmap is kept as its root node
FromMapping(data) ==
  IF data.t # "dict" THEN ValidationError
  ELSE IF "root" \notin DOMAIN data.v THEN ValidationError
  ELSE IF data.v["root"].t # "dict" THEN ValidationError
  ELSE FromDict(data.v["root"])

\* Mindmap.from_json: raw_json is a text json.loads rejects, or a text
\* together with the value json.loads gives for it.
Unparsed == [parses |-> FALSE]
JsonText(value) == [parses |-> TRUE, value |-> value]
FromJson(raw_json) ==
  IF ~raw_json.parses THEN ValidationError ELSE FromMapping(raw_json.value)

\* ---- FreeMind rendering
\* str.replace(old, new) for a one-character old
RECURSIVE Replace(_, _, _)
Replace(chars, old, new) ==
  IF chars = <<>> THEN <<>>
  ELSE (IF Head(chars) = old THEN new ELSE <<Head(chars)>>)
         \o Replace(Tail(chars), old, new)

\* _escape: the five replacements, "&" first
Escape(value) ==
  LET amp  == Replace(value, "&", <<"&", "a", "m", "p", ";">>)
      lt   == Replace(amp, "<", <<"&", "l", "t", ";">>)
      gt   == Replace(lt, ">", <<"&", "g", "t", ";">>)
      quot == Replace(gt, "\"", <<"&", "q", "u", "o", "t", ";">>)
  IN Replace(quot, "'", <<"&", "a", "p", "o", "s", ";">>)

\* str(node.priority)
DecimalDigits == <<"0", "1", "2", "3", "4", "5", "6", "7", "8", "9">>
RECURSIVE StrNat(_)
StrNat(n) ==
  IF n < 10 THEN <<DecimalDigits[n + 1]>>
  ELSE StrNat(n \div 10) \o <<DecimalDigits[(n % 10) + 1]>>
StrOf(value) ==
  CASE value.t = "bool" -> IF value.v THEN <<"T", "r", "u", "e">>
                           ELSE <<"F", "a", "l", "s", "e">>
    [] value.t = "int" -> IF value.v < 0 THEN <<"-">> \o StrNat(0 - value.v)
                          ELSE StrNat(value.v)

\* "if node.link:": a str that is not empty
Truthy(value) == value.t = "str" /\ value.v # <<>>

\* A line of the output: pad blanks, then a tag with its attributes, each
\* rendered key="escaped value" and joined by one blank:
\*   "node/"  <node ATTRS/>     "node"  <node ATTRS>     "/node"  </node>
Line(pad, tag, attrs) == [pad |-> pad, tag |-> tag, attrs |-> attrs]
Attribute(key, value) == [key |-> key, value |-> Escape(value)]

\* indent=indent + 2 for the children
ChildIndentSame(indent) == indent
ChildIndent(indent) == indent + 2

RECURSIVE Joined(_)
Joined(blocks) == IF blocks = <<>> THEN <<>> ELSE Head(blocks) \o Joined(Tail(blocks))

\* _serialize_node: the lines of the node's block
RECURSIVE SerializeNode(_, _)
SerializeNode(node, indent) ==
  LET attributes ==
        <<Attribute("TEXT", node.text)>>
          \o (IF Truthy(node.link) THEN <<Attribute("LINK", node.link.v)>> ELSE <<>>)
          \o (IF Truthy(node.color) THEN <<Attribute("COLOR", node.color.v)>> ELSE <<>>)
          \o (IF node.priority.t # "none"
              THEN <<Attribute("PRIORITY", StrOf(node.priority))>> ELSE <<>>)
  IN IF node.children = <<>>
     THEN <<Line(indent, "node/", attributes)>>
     ELSE <<Line(indent, "node", attributes)>>
            \o Joined([i \in DOMAIN node.children |->
                         SerializeNode(node.children[i], ChildIndent(indent))])
            \o <<Line(indent, "/node", <<>>)>>

\* serialize_to_freemind: the lines joined by "\n"
SerializeToFreemind(mindmap) ==
  <<Line(0, "?xml", <<[key |-> "version", value |-> <<"1", ".", "0">>],
                      [key |-> "encoding", value |-> <<"U", "T", "F", "-", "8">>]>>),
    Line(0, "map", <<[key |-> "version", value |-> <<"1", ".", "0", ".", "1">>]>>)>>
    \o SerializeNode(mindmap, 2)
    \o <<Line(0, "/map", <<>>)>>

\* ---- payloads given to from_json
\* One node of the payload is varied field by field; it sits under up to
\* MaxDepth levels of well-formed parents, after a well-formed sibling.
Absent == [t |-> "absent"]

\* The dict with the given fields, those that are Absent left out.
NodePayload(text, children, link, color, priority, note) ==
  LET all == [text |-> text, children |-> children, link |-> link,
              color |-> color, priority |-> priority, note |-> note]
      present == {k \in DOMAIN all : all[k].t # "absent"}
  IN PyDict([k \in present |-> all[k]])

PlainLeaf == NodePayload(PyStr(<<"a">>), Absent, Absent, Absent, Absent, Absent)

TextValues == {Absent, PyStr(<<"a">>), PyStr(<<" ", "a">>), PyStr(<<" ">>), PyInt(3)}
LinkValues == {Absent, PyNone, PyStr(<<"a", " ">>), PyInt(3)}
ColorValues == {Absent, PyStr(<<"a">>), PyList(<<>>)}
PriorityValues ==
  {Absent, PyInt(3), PyBool(TRUE), PyFloat, PyStr(<<"7">>), PyStr(<<" ", "3", "7">>),
   PyStr(<<"a">>), PyStr(<<"sup2">>), PyStr(<<>>)}
NoteValues == {Absent, PyStr(<<"a">>)}

\* Children lists of up to n elements, each a well-formed leaf or a value
\* that is not a node (a string, or a leaf with a blank text).
ChildPayloads ==
  {PlainLeaf, PyStr(<<"a">>),
   NodePayload(PyStr(<<" ">>), Absent, Absent, Absent, Absent, Absent),
   NodePayload(PyStr(<<"a">>), PyList(<<>>), Absent, Absent, PyStr(<<"3">>), Absent)}

RECURSIVE ListsUpTo(_, _)
ListsUpTo(items, n) ==
  IF n = 0 THEN {<<>>}
  ELSE LET shorter == ListsUpTo(items, n - 1)
       IN shorter \cup {Append(l, x) : l \in shorter, x \in items}

ChildrenValues ==
  {Absent, PyNone, PyStr(<<"a">>), PyDict(<<>>)}
    \cup {PyList(l) : l \in ListsUpTo(ChildPayloads, MaxChildren)}

\* payload under depth levels of parents
RECURSIVE Nested(_, _)
Nested(payload, depth) ==
  IF depth = 0 THEN payload
  ELSE NodePayload(PyStr(<<"a">>), PyList(<<PlainLeaf, Nested(payload, depth - 1)>>),
                   Absent, Absent, Absent, Absent)

VariedNodes ==
  {NodePayload(text, PyList(<<>>), link, color, priority, note) :
     text \in TextValues, link \in LinkValues, color \in ColorValues,
     priority \in PriorityValues, note \in NoteValues}
  \cup {NodePayload(PyStr(<<"a">>), children, Absent, Absent, priority, Absent) :
          children \in ChildrenValues, priority \in {Absent, PyStr(<<"7">>)}}

RootPayloads == {Nested(node, depth) : node \in VariedNodes, depth \in 0..MaxDepth}

RawJsons ==
  {Unparsed, JsonText(PyList(<<>>)), JsonText(PyDict(<<>>)),
   JsonText(PyDict([root |-> PyStr(<<"a">>)]))}
    \cup {JsonText(PyDict([root |-> payload])) : payload \in RootPayloads}

\* ---- mindmaps built by a caller
\* MindmapNode values with fields of the declared types: text a str, link
\* and color a str or None, priority an int or None.  One node is varied;
\* it has up to MaxChildren leaves as children and sits under up to
\* MaxDepth levels of parents, after a sibling.
NodeTexts == {<<"a">>, <<"a", " ">>, <<"&", "<">>, <<" ">>}
NodeAttrs ==
  {[link |-> PyNone, color |-> PyNone, priority |-> PyNone],
   [link |-> PyStr(<<"a", ">">>), color |-> PyStr(<<"'", "\"">>), priority |-> PyInt(0)],
   [link |-> PyStr(<<>>), color |-> PyNone, priority |-> PyInt(37)],
   [link |-> PyStr(<<" ", "a">>), color |-> PyStr(<<"a">>), priority |-> PyNone]}

LeafNode(text, attrs) == MindmapNode(text, <<>>, attrs.link, attrs.color, attrs.priority)
PlainNode == MindmapNode(<<"a">>, <<>>, PyNone, PyNone, PyNone)

ChildNodes ==
  {PlainNode}
    \cup {LeafNode(<<"&", "<">>, attrs) : attrs \in NodeAttrs}
    \cup {LeafNode(<<"a", " ">>, [link |-> PyNone, color |-> PyNone, priority |-> PyInt(3)])}

VariedTrees ==
  {MindmapNode(text, children, attrs.link, attrs.color, attrs.priority) :
     text \in NodeTexts, attrs \in NodeAttrs,
     children \in ListsUpTo(ChildNodes, MaxChildren)}

RECURSIVE NestedNode(_, _)
NestedNode(node, depth) ==
  IF depth = 0 THEN node
  ELSE MindmapNode(<<"a">>, <<PlainNode, NestedNode(node, depth - 1)>>,
                   PyNone, PyNone, PyNone)

Mindmaps == {NestedNode(node, depth) : node \in VariedTrees, depth \in 0..MaxDepth}

\* The JSON payload equivalent to a tree: an object with text, children,
\* link, color and priority for every node (None as null), under "root".
RECURSIVE NodeToPayload(_)
NodeToPayload(node) ==
  PyDict([text |-> PyStr(node.text),
          children |-> PyList([i \in DOMAIN node.children |->
                                 NodeToPayload(node.children[i])]),
          link |-> node.link, color |-> node.color, priority |-> node.priority])

EquivalentJson(mindmap) == JsonText(PyDict([root |-> NodeToPayload(mindmap)]))

\* ---- evaluation
MindmapInit ==
  /\ ProcessorInit({"client"}, {{}}, MaxFaults, MaxCrashes, MaxRestarts, {NoFiles})
  /\ ThreadsIdle
  /\ HandlerIdle
  /\ arg \in {[fn |-> "from_json", raw_json |-> raw_json] : raw_json \in RawJsons}
             \cup {[fn |-> "from_json", raw_json |-> EquivalentJson(mindmap),
                     mindmap |-> mindmap] : mindmap \in Mindmaps}
             \cup {[fn |-> "serialize", mindmap |-> mindmap] : mindmap \in Mindmaps}
  /\ res = NoRes

\* Mindmap.from_json(raw_json)
CallFromJson ==
  /\ arg.fn = "from_json"
  /\ res.done = 0
  /\ res' = [done |-> 1, out |-> FromJson(arg.raw_json)]
  /\ UNCHANGED <<arg, fs, dest, remote, clock, procVars, threadVars, handlerVars>>

\* serialize_to_freemind(mindmap), a first and a second time on the same
\* tree; first keeps what the first call gave.
CallSerialize ==
  /\ arg.fn = "serialize"
  /\ res.done < 2
  /\ LET xml == SerializeToFreemind(arg.mindmap)
     IN res' = [done |-> res.done + 1, out |-> xml,
                first |-> IF res.done = 0 THEN xml ELSE res.first]
  /\ UNCHANGED <<arg, fs, dest, remote, clock, procVars, threadVars, handlerVars>>

MindmapNext ==
  \/ CallFromJson
  \/ CallSerialize

MindmapSpec == MindmapInit /\ [][MindmapNext]_vars

\* The defects the validation is to reject, in a node payload or in any
\* node below it.  A key with the value null counts as not given.
DigitString(value) == value.t = "str" /\ IsDigit(StripWs(value.v))

RECURSIVE HasDefect(_)
HasDefect(data) ==
  \/ data.t # "dict"
  \/ /\ data.t = "dict"
     /\ \/ DOMAIN data.v \ NodeKeys # {}
        \/ Get(data, "text").t # "str"
        \/ Get(data, "text").t = "str" /\ StripWs(Get(data, "text").v) = <<>>
        \/ Get(data, "children").t \notin {"none", "list"}
        \/ Get(data, "link").t \notin {"none", "str"}
        \/ Get(data, "color").t \notin {"none", "str"}
        \/ /\ Get(data, "priority").t # "none"
           /\ Get(data, "priority").t # "int"
           /\ ~DigitString(Get(data, "priority"))
        \/ /\ Get(data, "children").t = "list"
           /\ \E i \in DOMAIN Get(data, "children").v :
                 HasDefect(Get(data, "children").v[i])

\* Every node has a non-empty trimmed text and a list of children.
RECURSIVE WellFormed(_)
WellFormed(node) ==
  /\ node.text # <<>>
  /\ StripWs(node.text) = node.text
  /\ DOMAIN node.children = 1..Len(node.children)
  /\ \A i \in DOMAIN node.children : WellFormed(node.children[i])

\* from_json was called on a JSON object with a root object.
ParsedRoot ==
  /\ arg.fn = "from_json" /\ res.done = 1
  /\ arg.raw_json.parses
  /\ arg.raw_json.value.t = "dict"
  /\ "root" \in DOMAIN arg.raw_json.value.v

\* C27: from_dict raises MindmapValidationError when the payload or a node
\* at any depth below it has an unknown key, a missing, non-string or blank
\* text, a children value that is not a list, a link or color that is not a
\* string, or a priority that is neither an integer nor a digit string;
\* every tree it returns has a non-empty trimmed text and a list of
\* children at every node.
C27_MindmapValidation ==
  ParsedRoot =>
    /\ HasDefect(arg.raw_json.value.v["root"]) => res.out = ValidationError
    /\ res.out.ok => WellFormed(res.out.value)

\* from_json was called on the JSON equivalent of a mindmap.
ParsedEquivalent ==
  /\ arg.fn = "from_json" /\ res.done = 1
  /\ "mindmap" \in DOMAIN arg

RECURSIVE NonEmptyTexts(_)
NonEmptyTexts(node) ==
  /\ node.text # <<>>
  /\ \A i \in DOMAIN node.children : NonEmptyTexts(node.children[i])

\* No text, link or color of the tree has a blank at either end, and no
\* text is empty.
Trimmed(value) == value.t = "str" => StripWs(value.v) = value.v
RECURSIVE TrimmedTexts(_)
TrimmedTexts(node) ==
  /\ node.text # <<>>
  /\ StripWs(node.text) = node.text
  /\ Trimmed(node.link) /\ Trimmed(node.color)
  /\ \A i \in DOMAIN node.children : TrimmedTexts(node.children[i])

\* C28 (as stated): for a mindmap whose nodes all have non-empty text,
\* from_json of its equivalent JSON payload returns a tree equal to it in
\* text, children order, link, color and priority.
C28_RoundTrip ==
  (ParsedEquivalent /\ NonEmptyTexts(arg.mindmap)) =>
    res.out = Returned(arg.mindmap)

\* C28 (amended): the same for a mindmap whose texts are not blank and
\* whose texts, links and colors have no leading or trailing whitespace;
\* for any other mindmap with non-blank texts from_json returns the tree
\* with these strings trimmed, and with a blank text it raises.
C28_TrimmedRoundTrip ==
  ParsedEquivalent =>
    /\ TrimmedTexts(arg.mindmap) => res.out = Returned(arg.mindmap)
    /\ res.out.ok => /\ TrimmedTexts(res.out.value)
                     /\ (res.out.value = arg.mindmap) = TrimmedTexts(arg.mindmap)
    /\ ~res.out.ok => res.out = ValidationError /\ ~TrimmedTexts(arg.mindmap)

\* A tree of three levels below the root, with two children, links, colors
\* and priorities at the lowest levels, came back as it was.
C28_Witness ==
  /\ ParsedEquivalent
  /\ res.out = Returned(arg.mindmap)
  /\ Len(arg.mindmap.children) = 2
  /\ Len(arg.mindmap.children[2].children) = 2
  /\ LET node == arg.mindmap.children[2].children[2]
     IN /\ node.text = <<"&", "<">>
        /\ node.link = PyStr(<<"a", ">">>)
        /\ node.priority = PyInt(0)
        /\ Len(node.children) = 2
        /\ node.children[2].priority = PyInt(37)

\* The nodes of a tree in pre-order, children in list order, each with its
\* depth below the root.
RECURSIVE PreOrder(_, _)
PreOrder(node, depth) ==
  <<[node |-> node, depth |-> depth]>>
    \o Joined([i \in DOMAIN node.children |-> PreOrder(node.children[i], depth + 1)])

IsElement(line) == line.tag \in {"node", "node/"}
Elements(lines) == SelectSeq(lines, IsElement)

AttributeOrder == <<"TEXT", "LINK", "COLOR", "PRIORITY">>
Rank(key) == CHOOSE r \in DOMAIN AttributeOrder : AttributeOrder[r] = key
InFixedOrder(attrs) ==
  \A i, j \in DOMAIN attrs : i < j => Rank(attrs[i].key) < Rank(attrs[j].key)
Has(attrs, key) == \E i \in DOMAIN attrs : attrs[i].key = key
ValueOf(attrs, key) == attrs[CHOOSE i \in DOMAIN attrs : attrs[i].key = key].value

\* The element is the rendering of the node at that depth.
Renders(element, node, depth) ==
  /\ element.pad = 2 + 2 * depth
  /\ (element.tag = "node/") = (node.children = <<>>)
  /\ \A i \in DOMAIN element.attrs : element.attrs[i].key \in
        {AttributeOrder[r] : r \in DOMAIN AttributeOrder}
  /\ InFixedOrder(element.attrs)
  /\ element.attrs[1] = [key |-> "TEXT", value |-> Escape(node.text)]
  /\ node.link.t = "none" => ~Has(element.attrs, "LINK")
  /\ node.color.t = "none" => ~Has(element.attrs, "COLOR")
  /\ Truthy(node.link) =>
       Has(element.attrs, "LINK") /\ ValueOf(element.attrs, "LINK") = Escape(node.link.v)
  /\ Truthy(node.color) =>
       Has(element.attrs, "COLOR") /\ ValueOf(element.attrs, "COLOR") = Escape(node.color.v)
  /\ Has(element.attrs, "PRIORITY") = (node.priority.t # "none")
  /\ node.priority.t # "none" =>
       ValueOf(element.attrs, "PRIORITY") = StrOf(node.priority)

\* Every opening line is closed by the next line of its own indentation,
\* with only deeper lines between; the line after a self-closing element
\* is not deeper than it.
WellNested(lines) ==
  \A k \in DOMAIN lines :
     /\ lines[k].tag = "node" =>
          \E j \in (k + 1)..Len(lines) :
             /\ lines[j].tag = "/node" /\ lines[j].pad = lines[k].pad
             /\ j > k + 1
             /\ \A l \in (k + 1)..(j - 1) : lines[l].pad > lines[k].pad
     /\ lines[k].tag = "node/" => lines[k + 1].pad <= lines[k].pad
     /\ lines[k].tag = "/node" =>
          \E j \in 1..(k - 1) : lines[j].tag = "node" /\ lines[j].pad = lines[k].pad

Serialized == arg.fn = "serialize" /\ res.done >= 1

\* C29: serialize_to_freemind emits, between the XML declaration and map
\* lines and the closing map line, one node element per tree node in
\* pre-order with children in list order; an element is self-closing
\* exactly when its node has no children, a child is indented two blanks
\* deeper than its parent, the attributes come in the order TEXT, LINK,
\* COLOR, PRIORITY with those that are None left out, and a second call on
\* the same tree gives the same output.
C29_SerializeFreemind ==
  Serialized =>
    LET lines == res.out
        elements == Elements(lines)
        nodes == PreOrder(arg.mindmap, 0)
    IN /\ lines[1].tag = "?xml" /\ lines[2].tag = "map"
       /\ lines[Len(lines)].tag = "/map"
       /\ \A k \in 3..(Len(lines) - 1) : lines[k].tag \in {"node", "node/", "/node"}
       /\ Len(elements) = Len(nodes)
       /\ \A i \in DOMAIN nodes : Renders(elements[i], nodes[i].node, nodes[i].depth)
       /\ WellNested(lines)
       /\ res.out = res.first

\* A tree of seven nodes was rendered twice: thirteen lines, among them a
\* node with all four attributes at six blanks and below it, at eight
\* blanks, a leaf whose text "&<" is escaped.
C29_Witness ==
  /\ Serialized
  /\ res.done = 2
  /\ Len(Elements(res.out)) = 7
  /\ Len(res.out) = 13
  /\ \E k \in DOMAIN res.out :
        /\ res.out[k].tag = "node" /\ res.out[k].pad = 6
        /\ Len(res.out[k].attrs) = 4
        /\ res.out[k + 1].tag = "node/" /\ res.out[k + 1].pad = 8
        /\ res.out[k + 1].attrs[1].value = <<"&", "a", "m", "p", ";", "&", "l", "t", ";">>

\* ============================ MindmapProcessor with the Drive handler
\* MindmapProcessor under run_forever; its output handler is a
\* GoogleDriveMindmapOutputHandler with or without a local copy.  At most
\* one error in the whole run, no kill and no restart.
DriveHandlers ==
  {h \in [kind : {"drive"}, push : {FALSE}, media_mode : {"pdf"},
          keep_local_copy : BOOLEAN, local_directory : BOOLEAN] : TRUE}

\* What extract_mindmap returned for the document.
ExtractedMindmaps ==
  {PlainNode,
   NestedNode(LeafNode(<<"&", "<">>,
                       [link |-> PyStr(<<"a", ">">>), color |-> PyNone,
                        priority |-> PyInt(3)]), 1)}

NoDriveCall == [n |-> 0, outcome |-> "none", mindmap |-> PlainNode,
                xml_content |-> <<>>, ret |-> PyNone, temps |-> {}]

DriveInit ==
  /\ ProcessorInit({"processor"}, {{}}, MaxFaults - 1, MaxCrashes, MaxRestarts,
                   {NoFiles})
  /\ variant = "mindmap"
  /\ ThreadsIdle
  /\ FnIdle
  /\ handler \in DriveHandlers
  /\ repo = EmptyRepo
  /\ call = NoDriveCall
  /\ written = <<>>
  /\ ssh = NoSsh

\* The finally block of write: the local copy is written when
\* keep_local_copy and a local directory are set, whatever happened in the
\* try block.
LocalCopyAfterUpload(h, outcome) ==
  h.keep_local_copy /\ h.local_directory /\ outcome = "uploaded"
LocalCopy(h, outcome) == h.keep_local_copy /\ h.local_directory

\* The temporary files left when write is over.  _write_temp_file raising
\* leaves tmp_path None: the file NamedTemporaryFile(delete=False) created,
\* if it got that far, stays; otherwise tmp_path is unlinked.
TempsLeft(temps, outcome, created) ==
  IF outcome = "temp_failed" /\ created
  THEN temps \cup {[n |-> Cardinality(temps) + 1, content |-> <<>>]}
  ELSE temps

\* self.output_handler.write(document, mindmap) in MindmapProcessor.run_once:
\*   "uploaded"       the try block completed
\*   "temp_failed"    _write_temp_file raised
\*   "upload_failed"  _upload_to_drive raised
DriveWrite ==
  /\ pc = "write"
  /\ \E mindmap \in ExtractedMindmaps,
        outcome \in {"uploaded", "temp_failed", "upload_failed"},
        created \in BOOLEAN :
       LET id == Document.identifier
           xml_content == SerializeToFreemind(mindmap)
           paths == MindmapPaths(dest, Document, clock)
           local == LocalCopy(handler, outcome)
           stored == IF local THEN WriteAll(dest, paths, Content(Document, xml_content))
                     ELSE dest
       IN /\ outcome # "temp_failed" => created
          /\ outcome # "uploaded" => CanFault
          /\ dest' = stored
          /\ pathsOf' = IF local THEN [pathsOf EXCEPT ![id] = @ \cup {PrimaryPath(paths)}]
                         ELSE pathsOf
          /\ call' = [n |-> Bump(call.n), outcome |-> outcome, mindmap |-> mindmap,
                      xml_content |-> xml_content,
                      ret |-> IF local /\ outcome = "uploaded"
                              THEN PyStr(PrimaryPath(paths).stem.name) ELSE PyNone,
                      temps |-> TempsLeft(call.temps, outcome, created)]
          /\ IF outcome = "uploaded"
             THEN /\ remote' = Append(remote, PrimaryPath(paths).stem)
                  /\ writes' = [writes EXCEPT ![id] = Bump(@)]
                  /\ wrote' = wrote \cup {id}
                  /\ pc' = "mark"
                  /\ ev' = Event("write", id, TRUE)
                  /\ UNCHANGED <<env, retry>>
             ELSE /\ Raised(id, FALSE, OnWriteError)
                  /\ ev' = Event("write", id, FALSE)
                  /\ UNCHANGED <<remote, writes, wrote>>
  /\ UNCHANGED <<config, threadVars, fnVars, handler, repo, written, ssh, folder, fs, clock,
                 loop, wstate, wpc, attempted, crashedAfterWrite, marks>>

DriveNext ==
  \/ PostInit
  \/ WriteOpen
  \/ WriteDump
  \/ WriteReplace
  \/ ListPdfs
  \/ Gate
  \/ DownloadPdf
  \/ Convert
  \/ DriveWrite
  \/ MarkRead
  \/ Sleep
  \/ Arrive
  \/ Tick

DriveSpec == DriveInit /\ [][DriveNext]_vars

LocalCopyConfigured == handler.keep_local_copy /\ handler.local_directory

\* The local .mm file of the document the last write was made for.
LocalCopyOf(document, now) ==
  [path |-> PrimaryPath(MindmapPaths(dest, document, now)),
   doc |-> Content(document, call.xml_content)]

C24_State ==
  /\ call.outcome = "upload_failed" =>
       /\ pc = "raised"
       /\ Document.identifier \notin LedgerKeys
       /\ Document.identifier \in failed
       /\ writes[Document.identifier] = 0 /\ marks[Document.identifier] = 0
  /\ call.temps # {} => call.outcome = "temp_failed"

C24_Step ==
  (pc = "write" /\ call' # call) =>
    /\ call'.xml_content = SerializeToFreemind(call'.mindmap)
    /\ LocalCopyConfigured =>
         /\ [path |-> PrimaryPath(MindmapPaths(dest, Document, clock)),
             doc |-> Content(Document, call'.xml_content)] \in dest'
         /\ \A f \in dest' \ dest : f.path.ext = "mm"
    /\ ~LocalCopyConfigured => dest' = dest
    /\ call'.outcome = "upload_failed" =>
         /\ pc' = "raised"
         /\ remote' = remote
         /\ fs' = fs /\ processed' = processed
    /\ call'.outcome = "uploaded" => pc' = "mark" /\ Len(remote') = Len(remote) + 1
    /\ call'.outcome \in {"uploaded", "upload_failed"} => call'.temps = call.temps

RepositoryUrls ==
  {[scheme |-> "ssh",   user |-> TRUE,  colon |-> FALSE, host |-> "vault"],
   [scheme |-> "none",  user |-> TRUE,  colon |-> TRUE,  host |-> "vault"],
   [scheme |-> "none",  user |-> FALSE, colon |-> FALSE, host |-> "none"]}

NoHost == "none"

\* _extract_ssh_host
ExtractSshHost(remote_url) ==
  IF remote_url.scheme = "ssh" THEN remote_url.host
  ELSE IF remote_url.user /\ remote_url.colon THEN remote_url.host
  ELSE NoHost

\* A known-hosts file: its lines, each the entries written on it (one, when
\* the line is well formed), and whether the last line lacks its newline.
HostKeys == {1, 2}
Entry(host, key) == [host |-> host, key |-> key]
AbsentHosts == [exists |-> FALSE, lines |-> <<>>, open |-> FALSE]
HostsFile(lines, open) == [exists |-> TRUE, lines |-> lines, open |-> open]
KnownHostsFiles ==
  {AbsentHosts,
   HostsFile(<<<<Entry("vault", 1)>>>>, FALSE),
   HostsFile(<<<<Entry("vault", 2)>>>>, TRUE),
   HostsFile(<<<<Entry("other", 1)>>>>, TRUE),
   HostsFile(<<<<Entry("other", 1)>>, <<Entry("vault", 2)>>>>, FALSE)}

\* The entries ssh-keygen and ssh read from the file: a line on which two
\* entries run together is not one.
EntriesOf(file, host) ==
  {file.lines[i][1] : i \in {j \in DOMAIN file.lines :
                               /\ Len(file.lines[j]) = 1
                               /\ file.lines[j][1].host = host}}

\* ssh-keygen -F host -f known_hosts: exit status 0 and the entries printed
Probe(file, host) ==
  [returncode |-> IF file.exists /\ EntriesOf(file, host) # {} THEN 0 ELSE 1,
   stdout |-> IF file.exists THEN EntriesOf(file, host) ELSE {}]

\* ssh-keyscan -H host: fails, or prints the keys the answering server offers
ScanFailed == [returncode |-> 1, stdout |-> <<>>]
Scanned(host, keys) ==
  [returncode |-> 0, stdout |-> [i \in DOMAIN keys |-> <<Entry(host, keys[i])>>]]
ScanResults(host) ==
  {ScanFailed, [returncode |-> 0, stdout |-> <<>>]}
    \cup {Scanned(host, <<k>>) : k \in HostKeys}
    \cup {Scanned(host, <<1, 2>>)}

\* open("a") and write(text): the text continues the last line when that
\* line has no newline; the scanned text ends with one.
AppendText(file, text) ==
  IF text = <<>> THEN [file EXCEPT !.exists = TRUE]
  ELSE IF file.exists /\ file.open /\ file.lines # <<>>
  THEN HostsFile([i \in 1..Len(file.lines) |->
                    IF i = Len(file.lines) THEN file.lines[i] \o Head(text)
                    ELSE file.lines[i]] \o Tail(text), FALSE)
  ELSE HostsFile(file.lines \o text, FALSE)

\* _ensure_known_host: the file it leaves
EnsureKnownHostUnprobed(file, host, scan) ==
  IF host = NoHost THEN file
  ELSE IF scan.returncode = 0 /\ scan.stdout # <<>>
  THEN AppendText(file, scan.stdout)
  ELSE file
EnsureKnownHost(file, host, scan) ==
  IF host = NoHost THEN file
  ELSE IF Probe(file, host).returncode = 0 /\ Probe(file, host).stdout # {}
  THEN file
  ELSE IF scan.returncode = 0 /\ scan.stdout # <<>>
  THEN AppendText(file, scan.stdout)
  ELSE file

\* _configure_git_ssh_command: the parts of GIT_SSH_COMMAND
ConfigureGitSshCommand(private_key_path) ==
  <<"ssh">>
    \o (IF private_key_path # "none" THEN <<"-i", "key">> ELSE <<>>)
    \o <<"-o", "UserKnownHostsFile=known_hosts">>
    \o <<"-o", "StrictHostKeyChecking=yes">>

\* os.environ of the process: GIT_SSH_COMMAND unset, or set by the operator.
Environs ==
  {[GIT_SSH_COMMAND |-> <<>>],
   [GIT_SSH_COMMAND |-> <<"ssh", "-o", "StrictHostKeyChecking=no">>]}

\* os.environ.copy() with GIT_SSH_COMMAND stored into it
GitEnv(environ, private_key_path) ==
  [environ EXCEPT !.GIT_SSH_COMMAND = ConfigureGitSshCommand(private_key_path)]

\* subprocess.run(["git", ...], env=self._git_env): the command as run
RunGit(args, git_env, returncode) ==
  [args |-> args, env |-> git_env, returncode |-> returncode]

ObsidianHandlers ==
  [kind : {"obsidian"}, push : BOOLEAN, media_mode : {"pdf"},
   repository_url : RepositoryUrls,
   private_key_path : {"none", "present", "missing"}]

NoVaultCall == [n |-> 0, document |-> NoDocument, paths |-> <<>>, ops |-> <<>>,
                changed |-> FALSE, outcome |-> "none", warned |-> FALSE]
VaultRepo == [index |-> {}, head |-> {}, log |-> <<>>, pushed |-> 0,
              foreign |-> "none"]

\* The handler's configuration, the machine it is constructed on (the
\* environment, the known-hosts file, whether the vault is cloned already).
VaultInit ==
  /\ ProcessorInit({"client"}, {{}}, MaxFaults, MaxCrashes, MaxRestarts, {NoFiles})
  /\ ThreadsIdle
  /\ FnIdle
  /\ handler \in ObsidianHandlers
  /\ repo = VaultRepo
  /\ call = NoVaultCall
  /\ written = <<>>
  /\ \E environ \in Environs, known_hosts \in KnownHostsFiles, cloned \in BOOLEAN :
       ssh = [built |-> "no", environ |-> environ, git_env |-> environ,
              known_hosts |-> known_hosts, cloned |-> cloned]

\* GitMarkdownOutputHandler.__init__: _verify_repository and _ensure_branch
BaseInitOps(git_env, on_branch) ==
  <<RunGit(<<"rev-parse", "--is-inside-work-tree">>, git_env, 0),
    RunGit(<<"rev-parse", "--abbrev-ref", "HEAD">>, git_env, 0)>>
    \o (IF on_branch THEN <<>> ELSE <<RunGit(<<"checkout", "main">>, git_env, 0)>>)

\* ObsidianVaultOutputHandler.__init__
ObsidianConstruct ==
  /\ ssh.built = "no"
  /\ IF handler.private_key_path = "missing"
     THEN /\ ssh' = [ssh EXCEPT !.built = "failed"]
          /\ UNCHANGED call
     ELSE \E scan \in ScanResults(ExtractSshHost(handler.repository_url)),
             clone_ok \in BOOLEAN, on_branch \in BOOLEAN :
            LET git_env == GitEnv(ssh.environ, handler.private_key_path)
                host == ExtractSshHost(handler.repository_url)
                clone == IF ssh.cloned THEN <<>>
                         ELSE <<RunGit(<<"clone", "--branch", "main", "--single-branch">>,
                                       git_env, IF clone_ok THEN 0 ELSE 128)>>
                cloned == ssh.cloned \/ clone_ok
            IN /\ ssh' = [ssh EXCEPT
                            !.built = IF cloned THEN "ready" ELSE "failed",
                            !.git_env = git_env,
                            !.known_hosts = EnsureKnownHost(@, host, scan),
                            !.cloned = cloned]
               /\ call' = [call EXCEPT
                             !.ops = clone \o (IF cloned
                                               THEN BaseInitOps(git_env, on_branch)
                                               ELSE <<>>)]
  /\ UNCHANGED <<handler, repo, written, fs, dest, remote, clock, procVars,
                 threadVars, fnVars>>

\* check=False on the pull: its exit status does not raise
PullRaisesChecked(returncode) == returncode # 0
PullRaises(returncode) == FALSE

\* Another device pushes a note to the vault's remote.
ForeignPush ==
  /\ ssh.built = "ready"
  /\ repo.foreign = "none"
  /\ repo' = [repo EXCEPT !.foreign = "remote"]
  /\ UNCHANGED <<handler, call, written, ssh, fs, dest, remote, clock, procVars,
                 threadVars, fnVars>>

RECURSIVE AddOps(_, _)
AddOps(paths, git_env) ==
  IF paths = <<>> THEN <<>>
  ELSE AddOps(SubSeq(paths, 1, Len(paths) - 1), git_env)
         \o <<RunGit(<<"add", paths[Len(paths)]>>, git_env, 0)>>

\* ObsidianVaultOutputHandler.write, the git commands failing or not: the
\* pull fails when the network does or the branches have diverged, the push
\* when the network does or the remote is ahead, the commit when git refuses.
ObsidianWrite ==
  /\ ssh.built = "ready"
  /\ call.n < MaxSyncs
  /\ \E document \in {D1}, text \in {1},
        pull_up \in BOOLEAN, commit_ok \in BOOLEAN, push_up \in BOOLEAN :
       LET paths == ObsidianPaths(dest, document, clock)
           stored == WriteAll(dest, paths, Content(document, text))
           staged == GitAdd(repo.index, stored, paths)
           changed == HasAnyStagedChanges(staged, repo.head)
           ahead == Len(repo.log) - repo.pushed
           pull_rc == IF pull_up /\ ~(repo.foreign = "remote" /\ ahead > 0)
                      THEN 0 ELSE 1
           pulled == IF pull_rc = 0 /\ repo.foreign = "remote" /\ handler.push
                     THEN "pulled" ELSE repo.foreign
           commit_rc == IF commit_ok THEN 0 ELSE 1
           push_rc == IF push_up /\ pulled # "remote" THEN 0 ELSE 1
           git_env == ssh.git_env
           \* staged_paths = [markdown_path, *attachments]
           staged_paths == <<PrimaryPath(paths)>> \o SubSeq(paths, 1, Len(paths) - 1)
           adds == AddOps(staged_paths, git_env)
                     \o <<RunGit(<<"diff", "--cached", "--quiet">>, git_env,
                                 IF changed THEN 1 ELSE 0)>>
           pull == IF handler.push
                   THEN <<RunGit(<<"pull", "origin", "main", "--ff-only">>,
                                 git_env, pull_rc)>>
                   ELSE <<>>
           pull_raised == handler.push /\ PullRaises(pull_rc)
           commit == IF pull_raised THEN <<>>
                     ELSE <<RunGit(<<"commit", "-m">>, git_env, commit_rc)>>
           committed == ~pull_raised /\ commit_rc = 0
           push == IF committed /\ handler.push
                   THEN <<RunGit(<<"push", "origin", "main">>, git_env, push_rc)>>
                   ELSE <<>>
           pushed == committed /\ handler.push /\ push_rc = 0
       IN /\ dest' = stored
          /\ IF ~changed
             THEN /\ repo' = [repo EXCEPT
                                !.index = ResetPaths(staged, repo.head, paths)]
                  /\ call' = [n |-> call.n + 1, document |-> document,
                              paths |-> paths,
                              ops |-> adds \o <<RunGit(<<"reset", "HEAD", "--">>,
                                                      git_env, 0)>>,
                              changed |-> FALSE, outcome |-> "returned",
                              warned |-> FALSE]
             ELSE /\ repo' =
                       [index |-> staged,
                        head |-> IF committed THEN staged ELSE repo.head,
                        log |-> IF committed
                                THEN Append(repo.log,
                                            CommitMessage(handler, document,
                                                          PrimaryPath(paths)))
                                ELSE repo.log,
                        pushed |-> IF pushed THEN Len(repo.log) + 1 ELSE repo.pushed,
                        foreign |-> pulled]
                  /\ call' = [n |-> call.n + 1, document |-> document,
                              paths |-> paths,
                              ops |-> adds \o pull \o commit \o push,
                              changed |-> TRUE,
                              outcome |-> IF committed /\ (handler.push => pushed)
                                          THEN "returned" ELSE "raised",
                              warned |-> handler.push /\ pull_rc # 0 /\ ~pull_raised]
  /\ UNCHANGED <<handler, written, ssh, fs, remote, clock, procVars, threadVars,
                 fnVars>>

VaultNext ==
  \/ ObsidianConstruct
  \/ ObsidianWrite
  \/ ForeignPush

VaultSpec == VaultInit /\ [][VaultNext]_vars

\* The SSH command checks host keys strictly: it carries the option
\* StrictHostKeyChecking=yes and no other setting of it.
HostKeyOptions ==
  {"StrictHostKeyChecking=no", "StrictHostKeyChecking=off",
   "StrictHostKeyChecking=accept-new", "StrictHostKeyChecking=ask"}
ChecksStrictly(ssh_command) ==
  /\ \E j \in 1..(Len(ssh_command) - 1) :
       ssh_command[j] = "-o" /\ ssh_command[j + 1] = "StrictHostKeyChecking=yes"
  /\ \A j \in DOMAIN ssh_command : ssh_command[j] \notin HostKeyOptions

IsPrefix(s, t) == Len(s) <= Len(t) /\ SubSeq(t, 1, Len(s)) = s

\* What was in the file is still there, in place: lines are only added, or
\* text is added to the end of the last one.
OnlyAppended(before, after) ==
  /\ before.exists => after.exists
  /\ Len(before.lines) <= Len(after.lines)
  /\ \A i \in DOMAIN before.lines : IsPrefix(before.lines[i], after.lines[i])
  /\ \A i \in DOMAIN before.lines :
       i < Len(before.lines) => after.lines[i] = before.lines[i]

\* The entries added to the file, whatever line they are on.
RECURSIVE Flat(_)
Flat(lines) == IF lines = <<>> THEN <<>> ELSE Head(lines) \o Flat(Tail(lines))
Added(before, after) ==
  SubSeq(Flat(after.lines), Len(Flat(before.lines)) + 1, Len(Flat(after.lines)))

VaultHost == ExtractSshHost(handler.repository_url)

C25_State ==
  /\ \A i \in DOMAIN call.ops :
       /\ call.ops[i].env = ssh.git_env
       /\ ChecksStrictly(call.ops[i].env.GIT_SSH_COMMAND)
  /\ ssh.built = "ready" => ChecksStrictly(ssh.git_env.GIT_SSH_COMMAND)

C25_Step ==
  /\ OnlyAppended(ssh.known_hosts, ssh'.known_hosts)
  /\ ssh'.known_hosts # ssh.known_hosts =>
       /\ ssh.built = "no"
       /\ VaultHost # NoHost
       /\ ~(\E i \in DOMAIN ssh.known_hosts.lines :
              \E j \in DOMAIN ssh.known_hosts.lines[i] :
                 /\ Len(ssh.known_hosts.lines[i]) = 1
                 /\ ssh.known_hosts.lines[i][j].host = VaultHost)
       /\ Added(ssh.known_hosts, ssh'.known_hosts) # <<>>
       /\ \A j \in DOMAIN Added(ssh.known_hosts, ssh'.known_hosts) :
            Added(ssh.known_hosts, ssh'.known_hosts)[j].host = VaultHost
  /\ \A key \in HostKeys :
       Entry(VaultHost, key) \in EntriesOf(ssh.known_hosts, VaultHost) =>
         /\ ssh'.known_hosts = ssh.known_hosts
         /\ EntriesOf(ssh'.known_hosts, VaultHost) = EntriesOf(ssh.known_hosts, VaultHost)

\* C25: every git command the Obsidian handler runs, in its constructor and
\* in write, runs with the handler's environment, whose GIT_SSH_COMMAND
\* carries StrictHostKeyChecking=yes and no weaker setting, whatever the
\* process environment held; the known-hosts file is only ever appended to,
\* by the constructor, with scanned keys of the repository's host, and only
\* when the file has no entry of that host: a file holding an entry of the
\* host, conflicting or not, is left exactly as it is.
C25_HostKeySafety == []C25_State /\ [][C25_Step]_vars

\* The process environment disabled host-key checking and the known-hosts
\* file did not exist: the constructor appended the two scanned keys, and a
\* write then pulled, committed and pushed with strict checking.
C25_Witness ==
  /\ ssh.built = "ready"
  /\ ssh.environ.GIT_SSH_COMMAND = <<"ssh", "-o", "StrictHostKeyChecking=no">>
  /\ ssh.known_hosts =
       HostsFile(<<<<Entry("vault", 1)>>, <<Entry("vault", 2)>>>>, FALSE)
  /\ handler.private_key_path = "present"
  /\ call.n = 1
  /\ call.outcome = "returned"
  /\ \E i \in DOMAIN call.ops :
       /\ call.ops[i].args[1] = "push"
       /\ call.ops[i].env.GIT_SSH_COMMAND =
            <<"ssh", "-i", "key", "-o", "UserKnownHostsFile=known_hosts",
              "-o", "StrictHostKeyChecking=yes">>

\* The positions, in the commands of the last write, of one git subcommand.
Ran(name) == {i \in DOMAIN call.ops : call.ops[i].args[1] = name}

C26_State ==
  /\ (call.n > 0 /\ handler.push /\ call.changed) =>
       /\ Cardinality(Ran("pull")) = 1
       /\ Cardinality(Ran("commit")) = 1
       /\ \A i \in Ran("pull") :
            /\ call.ops[i].args = <<"pull", "origin", "main", "--ff-only">>
            /\ Ran("commit") = {i + 1}
            /\ call.warned <=> call.ops[i].returncode # 0
       /\ \A j \in Ran("commit") :
            IF call.ops[j].returncode = 0
            THEN Ran("push") = {j + 1} /\ Len(call.ops) = j + 1
            ELSE Ran("push") = {} /\ Len(call.ops) = j /\ call.outcome = "raised"
       /\ \A k \in Ran("push") :
            call.outcome = IF call.ops[k].returncode = 0 THEN "returned" ELSE "raised"
  /\ (call.n > 0 /\ ~handler.push) =>
       /\ Ran("pull") = {} /\ Ran("push") = {}
       /\ ~call.warned

C26_Step ==
  (call'.n = call.n + 1 /\ call'.changed) =>
    LET committed == \E j \in DOMAIN call'.ops :
                       /\ call'.ops[j].args[1] = "commit"
                       /\ call'.ops[j].returncode = 0
        pushed == \E k \in DOMAIN call'.ops :
                    /\ call'.ops[k].args[1] = "push"
                    /\ call'.ops[k].returncode = 0
    IN /\ \A i \in DOMAIN call'.paths :
            \E f \in dest' : f.path = call'.paths[i] /\ f \in repo'.index
       /\ Len(repo'.log) = Len(repo.log) + (IF committed THEN 1 ELSE 0)
       /\ repo'.head = IF committed THEN repo'.index ELSE repo.head
       /\ repo'.pushed = IF pushed THEN Len(repo'.log) ELSE repo.pushed
       /\ call'.outcome = "raised" <=> ~committed \/ (handler.push /\ ~pushed)

\* C26: a write of the Obsidian handler with push enabled and staged changes
\* runs exactly one pull, with --ff-only, directly before its one commit,
\* and the push directly after a commit that succeeded, as its last command;
\* a pull that fails is logged and the commit is still run; a commit that
\* fails ends the write by raising, with no push and the branch where it
\* was; a push that fails raises with the commit made and not pushed.
C26_SyncOrdering == []C26_State /\ [][C26_Step]_vars

\* The pull failed, the warning was logged, the commit and the push were
\* made and write returned.
C26_Witness ==
  /\ handler.push
  /\ call.n = 1
  /\ call.warned
  /\ call.outcome = "returned"
  /\ \E i \in Ran("pull") : call.ops[i].returncode = 1
  /\ Len(repo.log) = 1
  /\ repo.pushed = 1

\* ---- GoogleDriveConnector._with_retry

\* Times are in tenths of a second.
MinBackoff == 1
DelayCap == 300
MaxOf(a, b) == IF a >= b THEN a ELSE b
MinOf(a, b) == IF a <= b THEN a ELSE b

\* What an invocation of the operation can raise: an error whose resp.status
\* is an integer, a string, or None (also the reading of an error that has
\* no resp); at: the invocation that raised it.
Statuses ==
  {PyNone, PyInt(404), PyInt(499), PyInt(500), PyInt(503), PyInt(599), PyInt(600),
   PyStr(<<"5", "0", "3">>), PyStr(<<"5", "sup2">>), PyStr(<<"a">>)}
HttpError(status, at) == [status |-> status, at |-> at]
NoError == [status |-> PyNone, at |-> 0]

\* int(status)
IntStatus(status) ==
  CASE status.t = "int" -> Returned(status.v)
    [] status.t = "str" /\ status.v # <<>>
         /\ (\A i \in DOMAIN status.v : status.v[i] \in AsciiDigits) ->
         Returned(IntOf(status.v))
    [] status.t = "str" -> RaisedError("ValueError")
    [] OTHER -> RaisedError("TypeError")

\* _is_retryable_error
IsRetryableErrorUnbounded(error) ==
  /\ error.status # PyNone
  /\ IntStatus(error.status).ok
  /\ 500 <= IntStatus(error.status).value
IsRetryableError(error) ==
  /\ error.status # PyNone
  /\ IntStatus(error.status).ok
  /\ 500 <= IntStatus(error.status).value
  /\ IntStatus(error.status).value < 600

\* GoogleDriveConnector.__init__: max(1, int(max_retries)) and
\* max(0.1, float(retry_initial_backoff))
Connectors ==
  {[max_retries |-> MaxOf(1, m), retry_initial_backoff |-> MaxOf(MinBackoff, b)] :
     m \in (0 - 1)..MaxRetries, b \in {0, 200, 400}}

NotCalled == [pc |-> "idle", attempt |-> 0, invoked |-> 0, delay |-> 0,
              last_error |-> NoError, slept |-> <<>>,
              value |-> 0, raised |-> NoError]

RetryInit ==
  /\ ProcessorInit({"client"}, {{}}, MaxFaults, MaxCrashes, MaxRestarts, {NoFiles})
  /\ ThreadsIdle
  /\ HandlerIdle
  /\ \E connector \in Connectors :
       arg = [fn |-> "with_retry", connector |-> connector]
  /\ res = NotCalled

\* _with_retry is entered: delay = self._retry_initial_backoff; a range
\* that is empty falls through to the RuntimeError after the loop.
WithRetry ==
  /\ arg.fn = "with_retry"
  /\ res.pc = "idle"
  /\ res' = IF arg.connector.max_retries < 1
            THEN [res EXCEPT !.pc = "raised",
                             !.raised = [status |-> PyStr(<<"RuntimeError">>), at |-> 0]]
            ELSE [res EXCEPT !.pc = "loop",
                             !.delay = arg.connector.retry_initial_backoff]
  /\ UNCHANGED <<arg, fs, dest, remote, clock, procVars, threadVars, handlerVars>>

\* One pass of the loop: the operation is invoked and returns or raises.
Invoke ==
  /\ res.pc = "loop"
  /\ res.attempt < arg.connector.max_retries
  /\ \E ok \in BOOLEAN, status \in Statuses :
       LET n == res.invoked + 1
           exc == HttpError(status, n)
       IN /\ ok => status = PyNone
          /\ res' =
               IF ok
               THEN [res EXCEPT !.pc = "returned", !.invoked = n, !.value = n]
               ELSE IF ~IsRetryableError(exc)
                       \/ res.attempt = arg.connector.max_retries - 1
               THEN [res EXCEPT !.pc = "raised", !.invoked = n, !.raised = exc]
               ELSE [res EXCEPT !.invoked = n,
                                !.attempt = @ + 1,
                                !.last_error = exc,
                                !.slept = Append(@, res.delay),
                                !.delay = MinOf(res.delay * 2, DelayCap)]
  /\ UNCHANGED <<arg, fs, dest, remote, clock, procVars, threadVars, handlerVars>>

RetryNext ==
  \/ WithRetry
  \/ Invoke

RetrySpec == RetryInit /\ [][RetryNext]_vars

\* The loop runs on as long as the operation and the sleep return.
RetryLiveSpec == RetrySpec /\ WF_vars(WithRetry) /\ WF_vars(Invoke)

Finished == res.pc \in {"returned", "raised"}

\* The status is a server error: an integer, or its decimal digits, from
\* 500 to 599.
ServerErrors ==
  {PyInt(n) : n \in 500..599} \cup {PyStr(<<"5", "0", "3">>)}

C30_State ==
  /\ res.invoked <= arg.connector.max_retries
  /\ res.attempt <= res.invoked
  /\ Finished => res.invoked >= 1
  /\ res.pc = "returned" => res.value = res.invoked
  /\ res.pc = "raised" =>
       /\ res.raised.at = res.invoked
       /\ res.raised.status \notin ServerErrors
            \/ res.invoked = arg.connector.max_retries
  /\ res.pc = "loop" /\ res.invoked > 0 =>
       /\ res.last_error.at = res.invoked
       /\ res.last_error.status \in ServerErrors

C30_Step ==
  /\ res'.invoked \in {res.invoked, res.invoked + 1}
  /\ (res'.invoked = res.invoked + 1 /\ res.invoked > 0) =>
       res.last_error.status \in ServerErrors
  /\ Finished => res' = res

C30_Terminates == <>Finished

\* C30: _with_retry invokes the operation at least once and at most
\* max_retries times and then has returned or raised; an invocation after
\* the first follows an error whose status is 500..599; an error with any
\* other status is raised by the invocation that met it, without another;
\* the value returned is that of the first invocation that succeeded; and
\* the error raised after max_retries invocations is the last one's.
C30_BoundedRetry == []C30_State /\ [][C30_Step]_vars /\ C30_Terminates

\* Three invocations, each answered with a server error: the third error
\* is raised, after two sleeps.
C30_Witness ==
  /\ arg.fn = "with_retry"
  /\ arg.connector.max_retries = 3
  /\ res.pc = "raised"
  /\ res.invoked = 3
  /\ res.raised = HttpError(PyInt(503), 3)
  /\ res.last_error = HttpError(PyStr(<<"5", "0", "3">>), 2)
  /\ Len(res.slept) = 2

\* The delay slept before invocation i + 1, in a call that made that many.
Doubled(i) == res.slept[i + 1] = 2 * res.slept[i]

\* C31: the first delay slept is the connector's initial backoff, each later
\* delay is twice the one before it, unless that would pass the cap, and no
\* delay slept is longer than the cap of 30 seconds.
C31_CappedBackoff ==
  arg.fn = "with_retry" =>
    /\ res.slept # <<>> => res.slept[1] = arg.connector.retry_initial_backoff
    /\ \A i \in 1..(Len(res.slept) - 1) :
         Doubled(i) \/ res.slept[i + 1] = DelayCap
    /\ \A i \in DOMAIN res.slept : res.slept[i] <= DelayCap

\* What does hold: every delay after the first is within the cap.
C31_LaterDelaysCapped ==
  arg.fn = "with_retry" =>
    /\ res.slept # <<>> => res.slept[1] = arg.connector.retry_initial_backoff
    /\ \A i \in 1..(Len(res.slept) - 1) :
         res.slept[i + 1] = MinOf(2 * res.slept[i], DelayCap)

\* ---- GeminiLLMClient.convert_pdf: the uploaded file and the temporary PDF

\* The clients: cloud_monitor_pdf2md's always uploads; ink2md's uploads when
\* prefer_inline_payloads is off.
GeminiClients ==
  {[module |-> "cloud_monitor_pdf2md", prefer_inline_payloads |-> FALSE],
   [module |-> "ink2md", prefer_inline_payloads |-> FALSE],
   [module |-> "ink2md", prefer_inline_payloads |-> TRUE]}

\* genai.upload_file returns the file or raises, the message naming
\* ragStoreName or not; generate_content raises, or answers blocked, without
\* text or with text; genai.delete_file returns or raises, and so does
\* os.unlink.
UploadOutcomes == {"uploaded", "rag_store_error", "error"}
GenerateOutcomes == {"error", "blocked", "empty", "text"}

NoRequest == [n |-> 0, handle |-> "none", ops |-> <<>>, outcome |-> "none"]
NoRequests == [last |-> NoRequest, store |-> {}, temps |-> {}, undeleted |-> {},
               kept |-> {}]

GeminiInit ==
  /\ ProcessorInit({"client"}, {{}}, MaxFaults, MaxCrashes, MaxRestarts, {NoFiles})
  /\ ThreadsIdle
  /\ HandlerIdle
  /\ arg \in {[fn |-> "convert_pdf", client |-> client] : client \in GeminiClients}
  /\ res = NoRequests

\* _upload_pdf's except clause of ink2md: the inline payload replaces an
\* upload refused for its ragStoreName; the other module has no such clause.
FallsBackInline(client, upload) ==
  client.module = "ink2md" /\ upload = "rag_store_error"

\* The handle _prepare_file_handle (ink2md) or _upload_pdf gives, "raised"
\* when the upload error leaves convert_pdf.
FileHandle(client, upload) ==
  IF client.prefer_inline_payloads THEN "inline"
  ELSE IF upload = "uploaded" THEN "uploaded"
  ELSE IF FallsBackInline(client, upload) THEN "inline"
  ELSE "raised"

\* cleanup is called in the finally clause of the request
CleansUpOnReturn(generate) == generate # "error"
CleansUp(generate) == TRUE

\* convert_pdf(document, pdf_bytes)
ConvertPdf ==
  /\ arg.fn = "convert_pdf"
  /\ res.last.n < MaxRequests
  /\ \E upload \in UploadOutcomes, generate \in GenerateOutcomes,
        deleted \in BOOLEAN, unlinked \in BOOLEAN :
       LET n == res.last.n + 1
           handle == FileHandle(arg.client, upload)
           uploads == ~arg.client.prefer_inline_payloads
           cleans == handle = "uploaded" /\ CleansUp(generate)
           upload_ops == IF uploads
                         THEN <<"write_temp", "upload_file", "unlink">> ELSE <<>>
           request_ops == IF handle = "raised" THEN <<>>
                          ELSE <<"generate_content">>
                                 \o (IF cleans THEN <<"delete_file">> ELSE <<>>)
       IN /\ arg.client.prefer_inline_payloads => upload = "uploaded"
          /\ handle # "uploaded" => deleted
          /\ ~uploads => unlinked
          /\ handle = "raised" => generate = "error"
          /\ res' = [last |-> [n |-> n, handle |-> handle,
                               ops |-> upload_ops \o request_ops,
                               outcome |-> IF handle = "raised" THEN "upload_error"
                                           ELSE generate],
                     store |-> IF handle = "uploaded" /\ ~(cleans /\ deleted)
                               THEN res.store \cup {n} ELSE res.store,
                     temps |-> IF uploads /\ ~unlinked
                               THEN res.temps \cup {n} ELSE res.temps,
                     kept |-> IF uploads /\ ~unlinked
                              THEN res.kept \cup {n} ELSE res.kept,
                     undeleted |-> IF cleans /\ ~deleted
                                   THEN res.undeleted \cup {n} ELSE res.undeleted]
  /\ UNCHANGED <<arg, fs, dest, remote, clock, procVars, threadVars, handlerVars>>

GeminiNext == ConvertPdf

GeminiSpec == GeminiInit /\ [][GeminiNext]_vars

Count(ops, name) == Cardinality({i \in DOMAIN ops : ops[i] = name})
Before(ops, a, b) ==
  \A i \in DOMAIN ops, j \in DOMAIN ops : (ops[i] = a /\ ops[j] = b) => i < j

LowerOf(text) ==
  CASE text = "MindMap" -> "mindmap"
    [] text = "PNG" -> "png"
    [] OTHER -> text

\* The configuration file, by the keys from_dict and the builders read;
\* "absent": the key is not there, "null": its value is null.
\*   state             "absent" | "no_path" ({}) | "null" | "path"
\*   google_drive      "absent" | "no_secrets" | "no_folder_id" | "complete"
\*   mindmap           "absent" | "no_folder_id" | "complete"
BaseData ==
  [pipeline |-> "absent", provider |-> "absent", directory |-> "out",
   output_provider |-> "absent", repository_path |-> "absent",
   repository_url |-> "absent", media_mode |-> "absent", media_invert |-> FALSE,
   state |-> "path", google_drive |-> "complete", mindmap |-> "absent"]
ObsidianData ==
  [BaseData EXCEPT !.output_provider = "obsidian", !.repository_path = "vault",
                   !.repository_url = "git@vault:notes.git"]
MindmapData == [BaseData EXCEPT !.pipeline = "MindMap", !.mindmap = "complete"]
AgenticData == [BaseData EXCEPT !.pipeline = "agentic", !.mindmap = "complete"]

\* Each of the four with at most one key changed.
Varied(data) ==
  {data}
    \cup {[data EXCEPT !.pipeline = v] : v \in {"absent", "markdown", "pdf", "null"}}
    \cup {[data EXCEPT !.provider = v] : v \in {"google_drive", "dropbox"}}
    \cup {[data EXCEPT !.directory = "absent"]}
    \cup {[data EXCEPT !.repository_path = "absent"]}
    \cup {[data EXCEPT !.repository_url = "absent"]}
    \cup {[data EXCEPT !.media_mode = v] : v \in {"pdf", "PNG", "jpeg", "gif"}}
    \cup {[data EXCEPT !.media_invert = TRUE]}
    \cup {[data EXCEPT !.media_invert = TRUE, !.media_mode = "PNG"]}
    \cup {[data EXCEPT !.state = v] : v \in {"absent", "no_path", "null"}}
    \cup {[data EXCEPT !.google_drive = v] :
            v \in {"absent", "no_secrets", "no_folder_id"}}
    \cup {[data EXCEPT !.mindmap = v] : v \in {"absent", "no_folder_id", "complete"}}
ConfigDatas ==
  Varied(BaseData) \cup Varied(ObsidianData) \cup Varied(MindmapData)
    \cup Varied(AgenticData)

Default(value, default) == IF value = "absent" THEN default ELSE value

\* media_mode = obsidian_data.get("media_mode", "pdf").lower(); "jpeg" is "jpg"
MediaModeOf(data) ==
  LET media_mode == LowerOf(Default(data.media_mode, "pdf"))
  IN IF media_mode = "jpeg" THEN "jpg" ELSE media_mode

\* AppConfig.from_dict, its checks in the order they are made
AppConfigFromDict(data) ==
  LET chosen == LowerOf(IF data.pipeline = "null" THEN "none"
                          ELSE Default(data.pipeline, "markdown"))
      output_provider == Default(data.output_provider, "filesystem")
  IN IF chosen \notin {"markdown", "mindmap", "agentic"}
       THEN RaisedError("ValueError")
     ELSE IF data.directory = "absent"
       THEN RaisedError("ValueError")
     ELSE IF output_provider = "obsidian" /\ data.repository_path = "absent"
       THEN RaisedError("ValueError")
     ELSE IF output_provider = "obsidian" /\ data.repository_url = "absent"
       THEN RaisedError("ValueError")
     ELSE IF output_provider = "obsidian"
             /\ MediaModeOf(data) \notin {"pdf", "png", "jpg"}
       THEN RaisedError("ValueError")
     ELSE IF output_provider = "obsidian" /\ data.media_invert
             /\ MediaModeOf(data) \notin {"png", "jpg"}
       THEN RaisedError("ValueError")
     ELSE IF data.state \in {"absent", "no_path"}
       THEN RaisedError("KeyError")
     ELSE IF data.mindmap = "no_folder_id"
       THEN RaisedError("ValueError")
     ELSE IF data.google_drive = "no_secrets"
       THEN RaisedError("ValueError")
     ELSE IF data.google_drive = "no_folder_id"
       THEN RaisedError("KeyError")
     ELSE Returned([pipeline |-> chosen,
                    provider |-> Default(data.provider, "google_drive"),
                    output_provider |-> output_provider,
                    media_mode |-> MediaModeOf(data),
                    media_invert |-> data.media_invert,
                    state_path |-> data.state,
                    google_drive |-> data.google_drive,
                    mindmap |-> data.mindmap])

\* build_processor up to the connector: the mindmap and agentic pipelines
\* need the mindmap section with its Drive output, the Drive service needs
\* the google_drive section, build_connector knows two providers.
BuildConnectorOf(parsed) ==
  IF parsed.pipeline \in {"mindmap", "agentic"} /\ parsed.mindmap # "complete"
    THEN RaisedError("ValueError")
  ELSE IF parsed.google_drive = "absent"
          /\ (parsed.provider = "google_drive" \/ parsed.pipeline # "markdown")
    THEN RaisedError("ValueError")
  ELSE IF parsed.provider \notin {"google_drive", "local"}
    THEN RaisedError("ValueError")
  ELSE Returned("connector")

\* ProcessingState(config.state.path): a null path has no expanduser
StateOf(parsed) ==
  IF parsed.state_path = "null" THEN RaisedError("AttributeError")
  ELSE Returned("state")

\* build_output_handler: ObsidianVaultOutputHandler.__init__ takes the media
\* modes "pdf" and "png"
BuildOutputHandlerOf(parsed) ==
  IF parsed.output_provider = "obsidian" /\ parsed.media_mode \notin {"pdf", "png"}
    THEN RaisedError("ValueError")
  ELSE Returned("handler")

\* The processor a configuration selects.
VariantOf(data) ==
  LET chosen == LowerOf(Default(data.pipeline, "markdown"))
  IN IF chosen = "mindmap" THEN "mindmap"
     ELSE IF chosen = "agentic" THEN "agentic" ELSE "pdf"

NotStarted == [pc |-> "start", config |-> <<>>, error |-> "none", calls |-> 0]

StartupInit ==
  /\ ProcessorInit({"processor"}, {{}}, MaxFaults, MaxCrashes, MaxRestarts, {NoFiles})
  /\ ThreadsIdle
  /\ HandlerIdle
  /\ \E data \in ConfigDatas :
       /\ arg = [fn |-> "main", data |-> data]
       /\ variant = VariantOf(data)
       /\ mdHandler = IF data.output_provider = "obsidian" /\ variant # "mindmap"
                      THEN "obsidian" ELSE "filesystem"
  /\ res = NotStarted

\* load_config(args.config)
LoadConfig ==
  /\ arg.fn = "main"
  /\ res.pc = "start"
  /\ LET parsed == AppConfigFromDict(arg.data)
     IN res' = IF parsed.ok
               THEN [res EXCEPT !.pc = "parsed", !.config = parsed.value]
               ELSE [res EXCEPT !.pc = "raised", !.error = parsed.error]
  /\ UNCHANGED <<arg, fs, dest, remote, clock, procVars, threadVars, handlerVars>>

\* build_processor: the Drive service and the connector
BuildConnector ==
  /\ res.pc = "parsed"
  /\ LET built == BuildConnectorOf(res.config)
         state == StateOf(res.config)
     IN res' = IF ~built.ok THEN [res EXCEPT !.pc = "raised", !.error = built.error]
               ELSE IF ~state.ok
               THEN [res EXCEPT !.pc = "raised", !.error = state.error]
               ELSE [res EXCEPT !.pc = "connected"]
  /\ UNCHANGED <<arg, fs, dest, remote, clock, procVars, threadVars, handlerVars>>

\* build_processor: ProcessingState(config.state.path), and the ledger
\* writes of the passes
LedgerStep ==
  /\ res.pc \in {"connected", "built"}
  /\ \/ PostInit
     \/ WriteOpen
     \/ WriteDump
     \/ WriteReplace

\* build_processor: the output handlers, after the ledger
BuildOutputHandler ==
  /\ res.pc = "connected"
  /\ pc = "run"
  /\ LET built == BuildOutputHandlerOf(res.config)
     IN res' = IF built.ok THEN [res EXCEPT !.pc = "built"]
               ELSE [res EXCEPT !.pc = "raised", !.error = built.error]
  /\ UNCHANGED <<arg, fs, dest, remote, clock, procVars, threadVars, handlerVars>>

\* processor.run_once() or run_forever(): the passes
PassStep ==
  /\ res.pc = "built"
  /\ \/ ListPdfs
     \/ Gate
     \/ DownloadPdf
     \/ SelectPipeline
     \/ Convert
     \/ WriteOutput
     \/ MarkRead
     \/ Sleep

StartupNext ==
  \/ LoadConfig
  \/ BuildConnector
  \/ LedgerStep
  \/ BuildOutputHandler
  \/ PassStep
  \/ Arrive
  \/ Tick

StartupSpec == StartupInit /\ [][StartupNext]_vars

\* The configurations C33 calls invalid: an unknown pipeline value, a missing
\* required field, an invalid media_mode, media_invert with media_mode "pdf".
UnknownPipeline(data) ==
  LowerOf(Default(data.pipeline, "markdown")) \notin {"markdown", "mindmap", "agentic"}
MissingRequired(data) ==
  \/ data.directory = "absent"
  \/ Default(data.output_provider, "filesystem") = "obsidian"
     /\ "absent" \in {data.repository_path, data.repository_url}
  \/ data.state \in {"absent", "no_path"}
  \/ data.google_drive \in {"no_secrets", "no_folder_id"}
  \/ data.mindmap = "no_folder_id"
  \/ VariantOf(data) # "pdf" /\ data.mindmap = "absent"
InvalidMedia(data) ==
  /\ Default(data.output_provider, "filesystem") = "obsidian"
  /\ \/ MediaModeOf(data) \notin {"pdf", "png", "jpg"}
     \/ data.media_invert /\ MediaModeOf(data) = "pdf"
Invalid(data) == UnknownPipeline(data) \/ MissingRequired(data) \/ InvalidMedia(data)

\* list_pdfs, download_pdf and the output writes have not been invoked.
Untouched == ev = NoEvent /\ dest = {} /\ remote = <<>>

\* C33: an invalid configuration raises ValueError while it is parsed or the
\* processor is built, before list_pdfs, download_pdf or any output write is
\* invoked: the start-up never reaches the passes, nothing has been listed,
\* downloaded or written, and the error it ends with is ValueError.
C33_EagerValueError ==
  arg.fn = "main" /\ Invalid(arg.data)
    => /\ res.pc # "built"
       /\ Untouched
       /\ res.pc = "raised" => res.error = "ValueError"

\* What the start-up does keep: every invalid configuration is rejected before
\* the passes begin, whatever the exception.
C33_EagerError ==
  arg.fn = "main" /\ Invalid(arg.data) => res.pc # "built" /\ Untouched
C33_Rejected ==
  arg.fn = "main" /\ Invalid(arg.data) /\ res.pc = "raised" /\ res.error = "ValueError"
C33_Running ==
  arg.fn = "main" /\ res.pc = "built" /\ ~Untouched

\* ---- the Git-backed handlers in a repository that is also worked in by hand

\* A file of the repository that no write of the handler stores.
OtherPath ==
  PathOf("notes", [name |-> <<"other">>, suffix |-> NoTime, counters |-> <<>>], "md")
OtherFile(text) == [path |-> OtherPath, doc |-> [id |-> 0, text |-> text]]

StageInit ==
  /\ HandlerInit
  /\ handler.kind \in GitKinds

\* Somebody edits the other file and runs git add on it.
StageOther ==
  /\ handler.kind \in GitKinds
  /\ \E text \in Texts :
       /\ OtherFile(text) \notin repo.index
       /\ dest' = WriteFile(dest, OtherPath, OtherFile(text).doc)
       /\ repo' = [repo EXCEPT !.index = WriteFile(@, OtherPath, OtherFile(text).doc)]
  /\ UNCHANGED <<handler, call, written, ssh, fs, remote, clock, procVars,
                 threadVars, fnVars>>

StageNext ==
  \/ HandlerWrite
  \/ StageOther
  \/ Elapse

StageSpec == StageInit /\ [][StageNext]_vars

\* The part of an index or tree at the given paths.
AtPaths(tree, paths) == {f \in tree : f.path \in PathSet(paths)}

\* After git add, the paths this write stored show no staged diff.
NoStagedDiff ==
  AtPaths(GitAdd(repo.index, dest', call'.paths), call'.paths)
    = AtPaths(repo.head, call'.paths)

\* C34: a write of a Git-backed handler commits exactly when the paths it
\* just wrote show a staged diff, whatever else is staged; without one it
\* resets those paths and returns with no commit and no push, HEAD as it was
\* and those paths unstaged; and if the index matched HEAD before the write,
\* it matches HEAD after it.
C34_Step ==
  (handler.kind \in GitKinds /\ WriteStep) =>
    /\ ("commit" \in PathSet(call'.ops)) <=> ~NoStagedDiff
    /\ NoStagedDiff =>
         /\ call'.ops = <<"add", "diff", "reset">>
         /\ repo'.head = repo.head
         /\ repo'.log = repo.log
         /\ repo'.pushed = repo.pushed
         /\ AtPaths(repo'.index, call'.paths) = AtPaths(repo'.head, call'.paths)
         /\ repo'.index \ AtPaths(repo'.index, call'.paths)
              = repo.index \ AtPaths(repo.index, call'.paths)
    /\ repo.index = repo.head => repo'.index = repo'.head

C34_NoOpBranch == [][C34_Step]_vars

\* GitMarkdownOutputHandler wrote a pair, the other file was staged by hand,
\* and the pair was written again: the second write reset and returned; one
\* commit, and the other file still staged.
C34_Witness ==
  /\ handler.kind = "git" /\ handler.push
  /\ call.n = 2
  /\ call.prev.document = call.document /\ call.prev.text = call.text
  /\ call.ops = <<"add", "diff", "reset">>
  /\ Len(repo.log) = 1 /\ repo.pushed = 1
  /\ repo.index # repo.head
  /\ AtPaths(repo.index, call.paths) = AtPaths(repo.head, call.paths)
  /\ \E text \in Texts : OtherFile(text) \in repo.index

\* ---- AgenticProcessor.run_once: one route for each document

\* What the run has stored for document i: notes (.md) and mindmaps (.mm).
Notes(i) == {path \in pathsOf[i] : path.ext = "md"}
MindmapsOf(i) == {path \in pathsOf[i] : path.ext = "mm"}

\* run_once is past the download of the current document.
Handling == pc \in {"route", "convert", "write", "mark", "mark_write"}

\* C35 (state): a document the agentic run has recorded was written once and
\* recorded once, and has either one mindmap and no note or one note and no
\* mindmap; the Drive folder holds exactly one upload for each mindmap whose
\* write returned.  While a
\* document is handled it has been downloaded in this pass and is not yet
\* recorded, and nothing is written for it before the write step.
C35_State ==
  /\ \A i \in LedgerKeys :
       /\ writes[i] = 1 /\ marks[i] = 1
       /\ Cardinality(pathsOf[i]) = 1
       /\ (MindmapsOf(i) = {}) # (Notes(i) = {})
  /\ Len(remote) = Cardinality({i \in DocIds : MindmapsOf(i) # {} /\ writes[i] = 1})
  /\ Handling =>
       /\ Document.identifier \in attempted
       /\ Document.identifier \notin LedgerKeys
       /\ marks[Document.identifier] = 0
       /\ writes[Document.identifier] = IF pc \in {"mark", "mark_write"} THEN 1 ELSE 0
       /\ pc \in {"route", "convert"} => pathsOf[Document.identifier] = {}

\* C35 (steps): download_pdf is called only for a document that was never
\* downloaded, written or recorded before; the route chosen by _select_pipeline
\* stays until the document is recorded; the backend call writes nothing; the
\* write that follows it is one write of the handler of that route (one upload
\* and a .mm path on the mindmap route, a .md path and no upload on the
\* markdown route); the ledger gains the document once.
C35_Step ==
  /\ (pc = "download" /\ pc' # pc) =>
       /\ Document.identifier \notin LedgerKeys \cup attempted
       /\ writes[Document.identifier] = 0
       /\ marks[Document.identifier] = 0
       /\ pathsOf[Document.identifier] = {}
  /\ (pc \in {"convert", "write", "mark", "mark_write"} /\ pc' # "run") =>
       pipeline' = pipeline /\ listing' = listing
  /\ (pc = "convert" /\ pc' # pc) =>
       UNCHANGED <<dest, remote, pathsOf, writes, marks, fs>>
  /\ (pc = "write" /\ pc' = "mark") =>
       LET id == Document.identifier
       IN /\ writes'[id] = 1
          /\ \A j \in DocIds \ {id} : pathsOf'[j] = pathsOf[j] /\ writes'[j] = writes[j]
          /\ IF pipeline = "mindmap"
             THEN /\ Len(remote') = Len(remote) + 1
                  /\ Cardinality(MindmapsOf(id)') = 1 /\ Notes(id)' = {}
             ELSE /\ remote' = remote
                  /\ Cardinality(Notes(id)') = 1 /\ MindmapsOf(id)' = {}
  /\ \A i \in DocIds : marks'[i] # marks[i] =>
       /\ pc = "mark_write" /\ Document.identifier = i
       /\ marks[i] = 0 /\ marks'[i] = 1
       /\ UNCHANGED <<dest, remote, pathsOf, writes>>

C35_AgenticExclusivity == []C35_State /\ [][C35_Step]_vars

\* Two passes of the agentic run: document 1 went to the mindmap route and
\* document 2 to the markdown route, each downloaded, written and recorded
\* once, and the second pass skipped both.
C35_Witness ==
  /\ variant = "agentic"
  /\ pc = "returned" /\ processed = 0
  /\ LedgerKeys = {1, 2}
  /\ MindmapsOf(1) # {} /\ Notes(1) = {}
  /\ Notes(2) # {} /\ MindmapsOf(2) = {}
  /\ Len(remote) = 1
  /\ writes[1] = 1 /\ writes[2] = 1 /\ marks[1] = 1 /\ marks[2] = 1

\* ---- GoogleDriveConnector.list_pdfs

\* The files of the Drive folder, in the order files().list serves them, and
\* the ways the server cuts that listing into pages (a page can be empty).
Listed == <<1, 2, 3>>
Pagings ==
  {[k \in 1..Len(cuts) |->
      SubSeq(Listed, (IF k = 1 THEN 0 ELSE cuts[k - 1]) + 1, cuts[k])] :
     cuts \in {c \in UNION {[1..n -> 0..Len(Listed)] : n \in 1..MaxPages} :
                 \A k \in 1..(Len(c) - 1) : c[k] <= c[k + 1]}}

\* files().list(pageToken=...).execute(): the page the token stands for, and
\* the token of the page after it when there is one.
PageOf(token) == IF token = PyNone THEN 1 ELSE token.v
Response(pages, token) ==
  [files |-> pages[PageOf(token)],
   nextPageToken |-> IF PageOf(token) < Len(pages)
                     THEN PyInt(PageOf(token) + 1) ELSE Absent]

\* response.get("nextPageToken")
NextPageToken(response) ==
  IF response.nextPageToken = Absent THEN PyNone ELSE response.nextPageToken

\* "if not page_token: break"
MorePagesNever(page_token) == FALSE
MorePages(page_token) == page_token # PyNone

\* Connectors with the retry counts of Connectors; the delays play no part.
ListConnectors == {c \in Connectors : c.retry_initial_backoff = MinBackoff}

NotListed == [pc |-> "idle", page_token |-> PyNone, bound |-> PyNone,
              documents |-> <<>>, attempt |-> 0, calls |-> <<>>]

ListInit ==
  /\ ProcessorInit({"client"}, {{}}, MaxFaults, MaxCrashes, MaxRestarts, {NoFiles})
  /\ ThreadsIdle
  /\ HandlerIdle
  /\ \E connector \in ListConnectors, pages \in Pagings :
       arg = [fn |-> "list_pdfs", connector |-> connector, pages |-> pages]
  /\ res = NotListed

\* list_pdfs is entered: page_token = None, documents = [], and the first
\* operation is built with the token bound as its default argument.
ListStart ==
  /\ arg.fn = "list_pdfs"
  /\ res.pc = "idle"
  /\ res' = [res EXCEPT !.pc = "request"]
  /\ UNCHANGED <<arg, fs, dest, remote, clock, procVars, threadVars, handlerVars>>

\* One invocation of the operation by _with_retry: the request carries the
\* token bound when the operation was built.  It returns a page, whose files
\* are appended and whose nextPageToken decides whether the loop goes on with
\* a new operation, or it raises, and _with_retry sleeps and invokes the same
\* operation again unless the error is not retryable or the attempts are used
\* up.
ListRequest ==
  /\ arg.fn = "list_pdfs"
  /\ res.pc = "request"
  /\ \E ok \in BOOLEAN, status \in Statuses :
       LET response == Response(arg.pages, res.bound)
           page_token == NextPageToken(response)
           exc == HttpError(status, Len(res.calls) + 1)
           made == Append(res.calls, [pageToken |-> res.bound, ok |-> ok])
       IN /\ ok => status = PyNone
          /\ res' =
               IF ok
               THEN [pc |-> IF MorePages(page_token) THEN "request" ELSE "returned",
                     page_token |-> page_token,
                     bound |-> IF MorePages(page_token) THEN page_token ELSE res.bound,
                     documents |-> res.documents \o response.files,
                     attempt |-> 0,
                     calls |-> made]
               ELSE IF ~IsRetryableError(exc)
                       \/ res.attempt = arg.connector.max_retries - 1
               THEN [res EXCEPT !.pc = "raised", !.calls = made]
               ELSE [res EXCEPT !.attempt = @ + 1, !.calls = made]
  /\ UNCHANGED <<arg, fs, dest, remote, clock, procVars, threadVars, handlerVars>>

ListNext ==
  \/ ListStart
  \/ ListRequest

ListSpec == ListInit /\ [][ListNext]_vars

\* The requests that returned a page, in order.
Served(calls) == SelectSeq(calls, LAMBDA c : c.ok)
\* The first n pages, one after the other.
FirstPages(pages, n) == Flat(SubSeq(pages, 1, n))

\* C36: the documents collected are those of the pages served so far, in page
\* order; the k-th request that returned a page asked for page k; a request
\* that follows a failed one carries the same page token; and list_pdfs
\* returns when a response carries no nextPageToken, with the documents of
\* every page, each once.
C36_PaginatedListing ==
  arg.fn = "list_pdfs" =>
    LET served == Served(res.calls)
    IN /\ \A k \in DOMAIN served : PageOf(served[k].pageToken) = k
       /\ res.documents = FirstPages(arg.pages, Len(served))
       /\ \A i \in 1..(Len(res.calls) - 1) :
            ~res.calls[i].ok => res.calls[i + 1].pageToken = res.calls[i].pageToken
       /\ res.pc = "returned" =>
            /\ Len(served) = Len(arg.pages)
            /\ res.documents = Flat(arg.pages)
            /\ res.page_token = PyNone
       /\ res.pc = "request" /\ res.calls # <<>> =>
            \/ ~res.calls[Len(res.calls)].ok
            \/ Len(served) < Len(arg.pages)

\* Three pages with an empty one in the middle; the request for the second
\* page failed with a server error and was made again; all three documents
\* are returned in order.
C36_Witness ==
  /\ arg.fn = "list_pdfs"
  /\ res.pc = "returned"
  /\ Len(arg.pages) = 3 /\ arg.pages[2] = <<>>
  /\ res.documents = Listed
  /\ Len(res.calls) = 4
  /\ ~res.calls[2].ok /\ res.calls[2].pageToken = PyInt(2)
  /\ res.calls[3].ok /\ res.calls[3].pageToken = PyInt(2)

\* ---- ObsidianVaultOutputHandler.write: the note and its attachment links

\* A Markdown text, line by line.  A line is text, blank, a line of
\* [label](path) links, or one embed ![[path]].
TextLine == [t |-> "text", paths |-> <<>>]
BlankLine == [t |-> "blank", paths |-> <<>>]
LinkLine(paths) == [t |-> "links", paths |-> paths]
EmbedLine(path) == [t |-> "embed", paths |-> <<path>>]

\* A file the converted text embeds by itself; the handler never writes it.
ForeignPath ==
  PathOf("figures", [name |-> <<"f">>, suffix |-> NoTime, counters |-> <<>>], "png")
Markdowns ==
  {<<>>, <<TextLine>>, <<TextLine, BlankLine, BlankLine>>,
   <<TextLine, EmbedLine(ForeignPath)>>}

\* markdown.rstrip(), on lines: the blank lines at the end go.
RECURSIVE RStripLines(_)
RStripLines(lines) ==
  IF lines # <<>> /\ lines[Len(lines)] = BlankLine
  THEN RStripLines(SubSeq(lines, 1, Len(lines) - 1))
  ELSE lines

\* "\n".join([text, ...]) puts one line for the text even when it is empty.
FirstPart(markdown) ==
  IF RStripLines(markdown) = <<>> THEN <<BlankLine>> ELSE RStripLines(markdown)

\* The paths the handler works with are absolute, below repository_path.
InRepository(path) == [root |-> "vault", rel |-> path]
\* _obsidian_path_for: path.relative_to(self.repository_path).as_posix()
ObsidianPathFor(path) == path.rel

EmbedLines(rel_paths) == [i \in DOMAIN rel_paths |-> EmbedLine(rel_paths[i])]

\* _append_pdf_reference
AppendPdfReference(markdown, pdf_path) ==
  LET rel_path == ObsidianPathFor(pdf_path)
  IN FirstPart(markdown) \o <<BlankLine, LinkLine(<<rel_path>>), EmbedLine(rel_path)>>

\* _append_image_references
AppendImageReferencesFirst(markdown, image_paths) ==
  IF image_paths = <<>> THEN markdown
  ELSE LET rel_paths == [i \in DOMAIN image_paths |-> ObsidianPathFor(image_paths[i])]
       IN FirstPart(markdown) \o <<BlankLine, LinkLine(rel_paths)>>
            \o EmbedLines(<<rel_paths[1]>>)
AppendImageReferences(markdown, image_paths) ==
  IF image_paths = <<>> THEN markdown
  ELSE LET rel_paths == [i \in DOMAIN image_paths |-> ObsidianPathFor(image_paths[i])]
       IN FirstPart(markdown) \o <<BlankLine, LinkLine(rel_paths)>>
            \o EmbedLines(rel_paths)

\* What a file of the vault holds: a note with its lines, or an attachment.
NoteDoc(id, lines) == [id |-> id, kind |-> "note", page |-> 0, lines |-> lines]
MediaDoc(id, kind, page) == [id |-> id, kind |-> kind, page |-> page, lines |-> <<>>]

\* pdf_path.write_bytes / image.save, one file for each attachment in order
RECURSIVE WriteMedia(_, _, _, _, _)
WriteMedia(files, paths, id, kind, page) ==
  IF paths = <<>> THEN files
  ELSE WriteMedia(WriteFile(files, Head(paths), MediaDoc(id, kind, page)),
                  Tail(paths), id, kind, page + 1)

LinkHandlers == {h \in Handlers : h.kind = "obsidian"}
LinkDocs == {D1, D2}
LinkPageCounts == 0..2
NoLinkCall == [n |-> 0, document |-> NoDocument, markdown |-> <<>>,
               attachments |-> <<>>, note |-> OtherPath, ops |-> <<>>]

LinkInit ==
  /\ ProcessorInit({"client"}, {{}}, MaxFaults, MaxCrashes, MaxRestarts, {NoFiles})
  /\ ThreadsIdle
  /\ FnIdle
  /\ handler \in LinkHandlers
  /\ repo = EmptyRepo
  /\ call = NoLinkCall
  /\ written = <<>>
  /\ ssh = NoSsh

\* handler.write(document, markdown, pdf_bytes=...): the attachments, the
\* note with their links, git add of the note and the attachments, commit,
\* push.
ObsidianWriteNote ==
  /\ handler \in LinkHandlers
  /\ call.n < MaxSyncs
  /\ \E document \in LinkDocs, markdown \in Markdowns, pages \in LinkPageCounts :
       /\ handler.media_mode = "pdf" => pages = 1
       /\ LET paths == HandlerPaths(handler, dest, document, clock, pages)
              markdown_path == PrimaryPath(paths)
              media == SubSeq(paths, 1, Len(paths) - 1)
              attachments == [i \in DOMAIN media |-> InRepository(media[i])]
              id == document.identifier
              noted == IF handler.media_mode = "pdf"
                       THEN AppendPdfReference(markdown, attachments[1])
                       ELSE AppendImageReferences(markdown, attachments)
              stored == WriteFile(WriteMedia(dest, media, id, handler.media_mode, 1),
                                  markdown_path, NoteDoc(id, noted))
              staged == GitAdd(repo.index, stored, paths)
              changed == HasAnyStagedChanges(staged, repo.head)
          IN /\ dest' = stored
             /\ repo' =
                  IF ~changed
                  THEN [repo EXCEPT !.index = ResetPaths(staged, repo.head, paths)]
                  ELSE [index |-> staged,
                        head |-> staged,
                        log |-> Append(repo.log,
                                       CommitMessage(handler, document, markdown_path)),
                        pushed |-> IF handler.push THEN Len(repo.log) + 1
                                   ELSE repo.pushed]
             /\ call' = [n |-> call.n + 1, document |-> document,
                         markdown |-> markdown, attachments |-> attachments,
                         note |-> markdown_path, ops |-> GitOps(handler, changed)]
  /\ UNCHANGED <<handler, written, ssh, remote, fs, clock, procVars, threadVars, fnVars>>

LinkNext ==
  \/ ObsidianWriteNote
  \/ Elapse

LinkSpec == LinkInit /\ [][LinkNext]_vars

\* The paths a text embeds, in order.
Embedded(lines) ==
  LET embeds == SelectSeq(lines, LAMBDA line : line.t = "embed")
  IN [i \in DOMAIN embeds |-> embeds[i].paths[1]]
\* The text of the note stored at a path.
NoteAt(files, path) == (CHOOSE f \in files : f.path = path).doc.lines
Position(ops, op) == CHOOSE i \in DOMAIN ops : ops[i] = op

\* C37 (the write): the note the write stored holds the given text's lines
\* (less the blank lines at its end) and then, for the attachments the write
\* created, one embed each, in attachment order, of the attachment's path
\* relative to the repository; each attachment is a new file of the media
\* directory, and the commit is made after git add and holds the note and
\* every attachment.
C37_Step ==
  (call'.n = call.n + 1) =>
    LET attachments == call'.attachments
        rel_paths == [i \in DOMAIN attachments |-> attachments[i].rel]
        note == NoteAt(dest', call'.note)
        mine == SelectSeq(Embedded(note), LAMBDA path : path \in PathSet(rel_paths))
    IN /\ mine = rel_paths
       /\ Embedded(note) = Embedded(call'.markdown) \o rel_paths
       /\ \A i \in DOMAIN rel_paths :
            /\ rel_paths[i].dir = "media"
            /\ ~Exists(dest, rel_paths[i])
            /\ Exists(dest', rel_paths[i])
            /\ \A j \in DOMAIN rel_paths : rel_paths[j] = rel_paths[i] => j = i
       /\ "commit" \in PathSet(call'.ops)
       /\ Position(call'.ops, "add") < Position(call'.ops, "commit")
       /\ \A path \in PathSet(rel_paths) \cup {call'.note} :
            \E f \in repo'.head : f.path = path /\ f \in dest'

\* C37 (the commits): every attachment a committed note embeds is in that
\* commit.
C37_State ==
  \A f \in repo.head : f.doc.kind = "note" =>
    \A i \in DOMAIN Embedded(f.doc.lines) :
      Embedded(f.doc.lines)[i] # ForeignPath => Exists(repo.head, Embedded(f.doc.lines)[i])

RepositoryRoot == <<"/", "repo">>
IsAbsolute(path) == path # <<>> /\ path[1] = "/"

\* Path.resolve(): ".." steps back, never above the root (no symbolic links).
RECURSIVE Resolve(_, _)
Resolve(done, rest) ==
  IF rest = <<>> THEN done
  ELSE IF Head(rest) = ".."
  THEN Resolve(IF Len(done) > 1 THEN SubSeq(done, 1, Len(done) - 1) ELSE done,
               Tail(rest))
  ELSE Resolve(Append(done, Head(rest)), Tail(rest))

\* (self.repository_path / directory).resolve(), or directory.resolve() of
\* an absolute one
ResolvedDirectory(directory) ==
  IF IsAbsolute(directory) THEN Resolve(<<"/">>, Tail(directory))
  ELSE Resolve(RepositoryRoot, directory)

\* resolved.relative_to(self.repository_path) does not raise
WithinRepository(resolved) == IsPrefix(RepositoryRoot, resolved)

Branches == {"main", "notes"}
Directories ==
  {<<"notes">>, <<"..", "out">>, <<"notes", "..", "..", "out">>,
   <<"/", "repo", "notes">>, <<"/", "srv", "notes">>}
NoDirectory == <<"none">>

\* What is at repository_path before the construction.  current is the
\* branch HEAD names, "HEAD" when HEAD is detached or the repository has no
\* commit yet; blocked: local changes that a checkout of another existing
\* branch would overwrite.
Trees ==
  {t \in [exists : BOOLEAN, worktree : BOOLEAN, current : Branches \cup {"HEAD", "none"},
          branches : SUBSET Branches, blocked : BOOLEAN,
          dirs : SUBSET {ResolvedDirectory(<<"notes">>)}] :
     /\ t.worktree => t.exists
     /\ t.worktree => t.current # "none"
     /\ t.current \in Branches => t.current \in t.branches
     /\ ~t.worktree =>
          t.current = "none" /\ t.branches = {} /\ ~t.blocked /\ t.dirs = {}
     /\ t.blocked => t.branches = Branches}

NotConstructed == [pc |-> "start", error |-> "none", tree |-> <<>>, how |-> "none"]

BranchInit ==
  /\ ProcessorInit({"client"}, {{}}, MaxFaults, MaxCrashes, MaxRestarts, {NoFiles})
  /\ ThreadsIdle
  /\ HandlerIdle
  /\ \E tree \in Trees, branch \in Branches, directory \in Directories,
        asset_directory \in Directories \cup {NoDirectory} :
       arg = [fn |-> "git_init", tree |-> tree, branch |-> branch,
              directory |-> directory, asset_directory |-> asset_directory]
  /\ res = [NotConstructed EXCEPT !.tree = arg.tree]

\* repository_path.exists() and _verify_repository
VerifyRepository ==
  /\ arg.fn = "git_init"
  /\ res.pc = "start"
  /\ res' = IF ~res.tree.exists
            THEN [res EXCEPT !.pc = "raised", !.error = "FileNotFoundError"]
            ELSE IF ~res.tree.worktree
            THEN [res EXCEPT !.pc = "raised", !.error = "ValueError"]
            ELSE [res EXCEPT !.pc = "branch"]
  /\ UNCHANGED <<arg, fs, dest, remote, clock, procVars, threadVars, handlerVars>>

\* _ensure_branch: nothing when HEAD names the branch; else git checkout
\* <branch>, and when that fails git checkout -b <branch>, whose failure
\* raises CalledProcessError.
EnsureBranch ==
  /\ arg.fn = "git_init"
  /\ res.pc = "branch"
  /\ LET tree == res.tree
         branch == arg.branch
     IN res' =
          IF tree.current = branch
          THEN [res EXCEPT !.pc = "directories", !.how = "reused"]
          ELSE IF branch \in tree.branches /\ ~tree.blocked
          THEN [res EXCEPT !.pc = "directories", !.how = "checked out",
                           !.tree.current = branch]
          ELSE IF branch \notin tree.branches
          THEN [res EXCEPT !.pc = "directories", !.how = "created",
                           !.tree.current = branch,
                           !.tree.branches = @ \cup {branch}]
          ELSE [res EXCEPT !.pc = "raised", !.error = "CalledProcessError"]
  /\ UNCHANGED <<arg, fs, dest, remote, clock, procVars, threadVars, handlerVars>>

\* The output directory and the asset directory are resolved and must lie
\* within the repository.
CheckDirectories ==
  /\ arg.fn = "git_init"
  /\ res.pc = "directories"
  /\ res' =
       IF ~WithinRepository(ResolvedDirectory(arg.directory))
       THEN [res EXCEPT !.pc = "raised", !.error = "ValueError"]
       ELSE IF arg.asset_directory # NoDirectory
               /\ ~WithinRepository(ResolvedDirectory(arg.asset_directory))
       THEN [res EXCEPT !.pc = "raised", !.error = "ValueError"]
       ELSE [res EXCEPT !.pc = "mkdir"]
  /\ UNCHANGED <<arg, fs, dest, remote, clock, procVars, threadVars, handlerVars>>

\* MarkdownOutputHandler.__init__: mkdir(parents=True, exist_ok=True) of both
MakeDirectories ==
  /\ arg.fn = "git_init"
  /\ res.pc = "mkdir"
  /\ res' = [res EXCEPT
               !.pc = "constructed",
               !.tree.dirs = @ \cup {ResolvedDirectory(arg.directory)}
                  \cup (IF arg.asset_directory = NoDirectory THEN {}
                        ELSE {ResolvedDirectory(arg.asset_directory)})]
  /\ UNCHANGED <<arg, fs, dest, remote, clock, procVars, threadVars, handlerVars>>

BranchNext ==
  \/ VerifyRepository
  \/ EnsureBranch
  \/ CheckDirectories
  \/ MakeDirectories

BranchSpec == BranchInit /\ [][BranchNext]_vars

\* The construction is rejected for one of the reasons C38 names.
NotWorkTree == arg.tree.exists /\ ~arg.tree.worktree
DirectoryOutside ==
  \/ ~WithinRepository(ResolvedDirectory(arg.directory))
  \/ /\ arg.asset_directory # NoDirectory
     /\ ~WithinRepository(ResolvedDirectory(arg.asset_directory))

\* C38, first part: after a successful construction HEAD names the
\* configured branch: it was reused when already current, checked out when it
\* existed, created otherwise, and no other branch was created.
C38_BranchCheckedOut ==
  (arg.fn = "git_init" /\ res.pc = "constructed") =>
    /\ res.tree.current = arg.branch
    /\ res.how = (IF arg.tree.current = arg.branch THEN "reused"
                  ELSE IF arg.branch \in arg.tree.branches THEN "checked out"
                  ELSE "created")
    /\ res.tree.branches = arg.tree.branches \cup {arg.branch}
    /\ res.how = "reused" => res.tree.branches = arg.tree.branches

\* C38: the first part, and a construction that is rejected because the path
\* is not a git working tree or because the output or asset directory
\* resolves outside the repository raises and leaves the repository as it
\* was: no branch created or switched, no directory created.
C38_Construction ==
  /\ C38_BranchCheckedOut
  /\ (arg.fn = "git_init" /\ res.pc = "raised"
        /\ res.error = "ValueError" /\ (NotWorkTree \/ DirectoryOutside))
       => res.tree = arg.tree

\* What holds of every rejection: no directory is created, and a path that is
\* not a git working tree is left as it was.
C38_RejectedMakesNoDirectory ==
  (arg.fn = "git_init" /\ res.pc = "raised") =>
    /\ res.tree.dirs = arg.tree.dirs
    /\ NotWorkTree => res.tree = arg.tree

\* The branch was created and the handler constructed.
C38_Created ==
  /\ arg.fn = "git_init" /\ res.pc = "constructed"
  /\ res.how = "created"
  /\ arg.branch \notin arg.tree.branches
  /\ res.tree.current = arg.branch
\* A directory outside the repository was rejected after the branch had been
\* created.
C38_RejectedAfterBranch ==
  /\ arg.fn = "git_init" /\ res.pc = "raised" /\ res.error = "ValueError"
  /\ DirectoryOutside
  /\ res.tree.dirs = arg.tree.dirs
  /\ arg.branch \notin arg.tree.branches /\ arg.branch \in res.tree.branches

\* ---- DailyLogFileHandler

\* Days are counted from day 0.  The *.log files of the log directory, by
\* their stems: the ISO date of a day, a text that is no date, a date that
\* does not exist (month 13).
Days == 0..MaxDay
DatedLog(day) == [t |-> "iso", day |-> day]
TextLog == [t |-> "text", day |-> 0]
NoSuchDateLog == [t |-> "iso", day |-> 0 - 1]
LogNames == {DatedLog(day) : day \in Days} \cup {TextLog, NoSuchDateLog}

\* date.fromisoformat(path.stem)
FromIsoformat(stem) ==
  IF stem.t = "iso" /\ stem.day >= 0 THEN Returned(stem.day)
  ELSE RaisedError("ValueError")

\* self.keep_days = max(keep_days, 1)
KeepDays(keep_days) == MaxOf(keep_days, 1)

\* cutoff = today - timedelta(days=self.keep_days - 1)
CutoffInclusive(today, keep_days) == today - keep_days
Cutoff(today, keep_days) == today - (keep_days - 1)

\* _purge_old_logs: the files left; stuck are the files whose unlink raises
\* OSError, which is passed over.
PurgeOldLogs(files, stuck, today, keep_days) ==
  {path \in files :
     \/ ~FromIsoformat(path).ok
     \/ ~(FromIsoformat(path).value < Cutoff(today, keep_days))
     \/ path \in stuck}

NoEmit == [opened |-> FALSE, day |-> 0, before |-> {}]

LogInit ==
  /\ ProcessorInit({"client"}, {{}}, MaxFaults, MaxCrashes, MaxRestarts, {NoFiles})
  /\ ThreadsIdle
  /\ HandlerIdle
  /\ \E keep_days \in 0..3, stuck \in SUBSET {DatedLog(0)} :
       arg = [fn |-> "log", keep_days |-> KeepDays(keep_days), stuck |-> stuck]
  /\ \E files \in SUBSET LogNames, today \in Days :
       /\ arg.stuck \subseteq files
       /\ res = [today |-> today, files |-> files, stream |-> FALSE,
                 current_day |-> 0 - 1, emits |-> 0, last |-> NoEmit]

\* emit(record): _ensure_stream opens the day's file when no stream is open
\* or the date has changed (mkdir, purge, open for append), then the record
\* is written.
Emit ==
  /\ arg.fn = "log"
  /\ LET today == res.today
         opens == ~res.stream \/ res.current_day # today
     IN res' = [res EXCEPT
                  !.files = IF opens
                            THEN PurgeOldLogs(@, arg.stuck, today, arg.keep_days)
                                   \cup {DatedLog(today)}
                            ELSE @,
                  !.stream = TRUE,
                  !.current_day = today,
                  !.emits = Bump(@),
                  !.last = [opened |-> opens, day |-> today, before |-> res.files]]
  /\ UNCHANGED <<arg, fs, dest, remote, clock, procVars, threadVars, handlerVars>>

\* close(): the stream is closed and forgotten
CloseLog ==
  /\ arg.fn = "log"
  /\ res.stream
  /\ res' = [res EXCEPT !.stream = FALSE]
  /\ UNCHANGED <<arg, fs, dest, remote, clock, procVars, threadVars, handlerVars>>

\* Midnight passes.
NextDay ==
  /\ arg.fn = "log"
  /\ res.today < MaxDay
  /\ res' = [res EXCEPT !.today = @ + 1]
  /\ UNCHANGED <<arg, fs, dest, remote, clock, procVars, threadVars, handlerVars>>

LogNext ==
  \/ Emit
  \/ CloseLog
  \/ NextDay

LogSpec == LogInit /\ [][LogNext]_vars

\* The last step was an emit that opened the stream; nothing has happened to
\* the directory since.
JustOpened == arg.fn = "log" /\ res.emits > 0 /\ res.last.opened
IsDated(path) == FromIsoformat(path).ok
Old(path, day) == IsDated(path) /\ FromIsoformat(path).value < Cutoff(day, arg.keep_days)
OnlyPastDated(files, day) ==
  \A path \in files : IsDated(path) /\ FromIsoformat(path).value <= day
Newest(files, path) ==
  /\ path \in files
  /\ \A other \in files : FromIsoformat(other).value <= FromIsoformat(path).value

\* C39 (as stated): an emit that opens the stream for day D deletes every
\* dated log file older than D - (keep_days - 1) days and no other file;
\* with only past-dated files present before it, at most keep_days log files
\* are there after it and the newest is D's.
C39_Rotation ==
  JustOpened =>
    LET D == res.last.day
        before == res.last.before
    IN /\ \A path \in before : Old(path, D) => path \notin res.files
       /\ \A path \in before : ~Old(path, D) => path \in res.files
       /\ OnlyPastDated(before, D) =>
            /\ Cardinality(res.files) <= arg.keep_days
            /\ Newest(res.files, DatedLog(D))

\* C39 (amended): the same for the files whose unlink does not raise OSError;
\* an emit that does not open the stream leaves the directory as it is.
C39_RotationOfRemovable ==
  /\ JustOpened =>
       LET D == res.last.day
           before == res.last.before
       IN /\ \A path \in before :
               (Old(path, D) /\ path \notin arg.stuck) => path \notin res.files
          /\ \A path \in before :
               (~Old(path, D) \/ path \in arg.stuck) => path \in res.files
          /\ res.files \subseteq before \cup {DatedLog(D)}
          /\ DatedLog(D) \in res.files
          /\ (OnlyPastDated(before, D) /\ arg.stuck = {}) =>
               /\ Cardinality(res.files) <= arg.keep_days
               /\ Newest(res.files, DatedLog(D))
  /\ (arg.fn = "log" /\ res.emits > 0 /\ ~res.last.opened) =>
       res.files = res.last.before

\* keep_days 2 on day 4 with the logs of days 0 to 3 present: the emit opened
\* the stream, the logs of days 0, 1 and 2 are gone, those of days 3 and 4
\* remain.
C39_Witness ==
  /\ JustOpened
  /\ arg.keep_days = 2 /\ arg.stuck = {}
  /\ res.last.day = 4
  /\ res.last.before = {DatedLog(day) : day \in 0..3}
  /\ res.files = {DatedLog(3), DatedLog(4)}


====
